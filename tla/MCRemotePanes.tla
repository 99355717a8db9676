---------------------------- MODULE MCRemotePanes ----------------------------
EXTENDS RemotePanes

Local(f) == [what \in Does \cup {"adopts"} |-> IF what = "adopts" THEN TRUE
                                             ELSE IF what \in DOMAIN f THEN f[what] ELSE 0]
Daedalus(f) == [Local(f) EXCEPT !.adopts = FALSE]

MCBudgets == {
  Local([open |-> 1, link |-> 2, drop |-> 1, out |-> 2, show |-> 1]),
  Local([open |-> 1, link |-> 1, out |-> 1, show |-> 1, hide |-> 1, exit |-> 1]),
  Local([open |-> 1, link |-> 2, boot |-> 1, drop |-> 1, seed |-> 1]),
  Local([open |-> 2, link |-> 2, drop |-> 1]),
  Local([had |-> 1, open |-> 1, link |-> 2, boot |-> 1, close |-> 1, seed |-> 1]),
  Local([open |-> 1, link |-> 2, drop |-> 1, close |-> 1, expire |-> 1, refuse |-> 1, mislist |-> 1]),
  Local([open |-> 1, link |-> 1, show |-> 1, hide |-> 1, seed |-> 1, expire |-> 1]),
  Local([had |-> 2, open |-> 1, link |-> 2, drop |-> 1, exit |-> 1, mislist |-> 1]),
  Local([had |-> 1, open |-> 2, link |-> 1, hide |-> 1, mislist |-> 2]),
  Daedalus([had |-> 1, open |-> 1, link |-> 2, boot |-> 1, show |-> 1, close |-> 1])
}

=============================================================================
