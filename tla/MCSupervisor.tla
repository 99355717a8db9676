---------------------------- MODULE MCSupervisor ----------------------------
\* Small instances of Supervisor for TLC: servers of a former run that are there or not, and a few
\* requests against a few failures at a time.
EXTENDS Supervisor

Of(servers, f) == [what \in Does \cup {"cur", "old"} |->
  IF what \in {"cur", "old"} THEN what \in servers ELSE IF what \in DOMAIN f THEN f[what] ELSE 0]

MCBudgets == {
  Of({}, [open |-> 1, crash |-> 2, start |-> 1]),
  Of({}, [fail |-> 1, other |-> 1, crash |-> 1, open |-> 1]),
  Of({"cur"}, [stop |-> 1, start |-> 1, drop |-> 1]),
  Of({"cur"}, [restart |-> 1, crash |-> 1, flaky |-> 1]),
  Of({"cur"}, [stop |-> 1, unsocket |-> 1, drop |-> 1]),
  Of({"cur"}, [stop |-> 1, crash |-> 1, open |-> 1]),
  Of({"old"}, [end |-> 1, drop |-> 1]),
  Of({"old"}, [end |-> 1, unsocket |-> 1]),
  Of({"cur", "old"}, [crash |-> 1, flaky |-> 1]),
  Of({"cur"}, [unlock |-> 1, unsocket |-> 1, drop |-> 1]),
  Of({"old"}, [unlock |-> 1, drop |-> 1])
}

\* A server of a former run, an older one to look for, and a crash.
MCSlowLook == {Of({"cur", "old"}, [crash |-> 1])}
=============================================================================
