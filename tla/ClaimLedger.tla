------------------------------ MODULE ClaimLedger ------------------------------
(***************************************************************************)
(* What the claim layer of one concept promises its readers, with none of   *)
(* its machinery: an append-only set of claim identities, some of which are *)
(* live (rendered in the concept's body).  A step asserts one identity      *)
(* never seen before.  It goes live beside the others, goes live in the     *)
(* place of exactly one live claim, or is held aside and never goes live.   *)
(* An identity is never dropped and one that left the live set never comes  *)
(* back.                                                                    *)
(***************************************************************************)
CONSTANT Ids       \* the identities a claim may have

VARIABLES
  entries,         \* every identity asserted so far
  live             \* the identities a reader sees

ledgerVars == <<entries, live>>

LedgerTypeOK ==
  /\ entries \subseteq Ids
  /\ live \subseteq entries

LedgerInit ==
  /\ entries \in SUBSET Ids
  /\ live = entries

\* A new identity joins the ledger and is shown beside the live claims.
Assert(id) ==
  /\ id \notin entries
  /\ entries' = entries \cup {id}
  /\ live' = live \cup {id}

\* A new identity joins the ledger and takes the place of one live claim.
Replace(old, id) ==
  /\ id \notin entries
  /\ old \in live
  /\ entries' = entries \cup {id}
  /\ live' = (live \ {old}) \cup {id}

\* A new identity is recorded but never shown.
Hold(id) ==
  /\ id \notin entries
  /\ entries' = entries \cup {id}
  /\ live' = live

LedgerNext ==
  \E id \in Ids :
     \/ Assert(id)
     \/ Hold(id)
     \/ \E old \in live : Replace(old, id)

LedgerSpec == LedgerInit /\ [][LedgerNext]_ledgerVars
================================================================================
