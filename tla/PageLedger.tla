------------------------------ MODULE PageLedger ------------------------------
(***************************************************************************)
(* What the page allocator promises: every physical page has one owner. A  *)
(* request takes pages that are free, keeps them until it gives them all   *)
(* back, and nobody else can give them back. A request dropped with its    *)
(* pages takes them out of circulation.                                    *)
(***************************************************************************)
CONSTANTS Pages, Handles, Free, Lost

VARIABLE owner   \* per page: a request, Free or Lost

OwnedBy(h) == {p \in Pages : owner[p] = h}
Pass(from, to, pages) ==
  /\ pages \subseteq OwnedBy(from)
  /\ owner' = [p \in Pages |-> IF p \in pages THEN to ELSE owner[p]]

Take(h) ==
  /\ OwnedBy(h) = {}
  /\ \E pages \in SUBSET Pages : Pass(Free, h, pages)
GiveBack(h) == Pass(h, Free, OwnedBy(h))
Lose(h) == Pass(h, Lost, OwnedBy(h))

LedgerInit == owner = [p \in Pages |-> Free]
LedgerNext == \E h \in Handles : Take(h) \/ GiveBack(h) \/ Lose(h)
LedgerSpec == LedgerInit /\ [][LedgerNext]_owner
=============================================================================
