---------------------------- MODULE PoolPublication ----------------------------
(***************************************************************************)
(* Publication of the current pool's audit (jobs.py                        *)
(* _publish_current_pool_audit): a verified copy replaces the target, the  *)
(* directory is synchronised, and when that fails the target is put back   *)
(* as it was.  Publishers do not exclude each other, and the power may     *)
(* fail, which leaves any of the contents not yet synchronised over.       *)
(***************************************************************************)
EXTENDS Naturals

CONSTANTS
  Publishers,
  Audits,      \* contents of verified audits
  Linked,      \* the target is a symbolic link
  Missing,
  MaxPublications  \* bound: publications begun

ASSUME PoolAssumption ==
  Missing \notin Audits /\ Linked \notin Audits /\ Linked # Missing

VARIABLES
  target,      \* what readers find
  survivors,   \* what they may find after a power failure
  ppc, audit, before,    \* of every publisher
  settled,     \* history: the audit last reported as published
  doubtful,    \* history: since the last publication that went well and alone,
               \* one was uncertain, was cut short or overlapped another
  alone,       \* history: publishers that nobody overlapped
  publications

poolVars == <<target, survivors, ppc, audit, before, settled, doubtful, alone,
              publications>>

PoolInit ==
  /\ target \in {Missing, Linked} /\ survivors = {target}
  /\ ppc = [p \in Publishers |-> "idle"]
  /\ audit = [p \in Publishers |-> Missing]
  /\ before = [p \in Publishers |-> Missing]
  /\ settled = Missing
  /\ doubtful = FALSE /\ alone = {}
  /\ publications = 0

PStep(p, from, to) == ppc[p] = from /\ ppc' = [ppc EXCEPT ![p] = to]
PEnd(p) ==
  /\ ppc' = [ppc EXCEPT ![p] = "idle"]
  /\ audit' = [audit EXCEPT ![p] = Missing]
  /\ before' = [before EXCEPT ![p] = Missing]

\* The source is read and its copy verified.
Verify(p) == \E a \in Audits :
  /\ publications < MaxPublications
  /\ publications' = publications + 1
  /\ PStep(p, "idle", "verified")
  /\ audit' = [audit EXCEPT ![p] = a]
  /\ alone' = IF \A q \in Publishers : ppc[q] = "idle" THEN {p} ELSE {}
  /\ doubtful' = (doubtful \/ alone' = {})
  /\ UNCHANGED <<target, survivors, before, settled>>

\* What was there before; a link is not read, and a target with the same bytes
\* is left alone.
Compare(p) ==
  /\ PStep(p, "verified", IF target = audit[p] THEN "same" ELSE "replacing")
  /\ before' = [before EXCEPT ![p] = IF target = Linked THEN Missing ELSE target]
  /\ UNCHANGED <<target, survivors, audit, settled, doubtful, alone, publications>>

Put(content) == target' = content /\ survivors' = survivors \cup {content}

Replace(p) ==
  /\ PStep(p, "replacing", "syncing")
  /\ Put(audit[p])
  /\ UNCHANGED <<audit, before, settled, doubtful, alone, publications>>

Synced == survivors' = {target}

Sync(p) ==
  /\ ppc[p] = "syncing"
  /\ Synced
  /\ settled' = audit[p]
  /\ doubtful' = (doubtful /\ p \notin alone)
  /\ PEnd(p)
  /\ UNCHANGED <<target, alone, publications>>

\* Reports published = FALSE, without a synchronisation of its own.
Same(p) ==
  /\ ppc[p] = "same"
  /\ settled' = audit[p]
  /\ PEnd(p)
  /\ UNCHANGED <<target, survivors, doubtful, alone, publications>>

SyncFails(p) ==
  /\ PStep(p, "syncing", "restoring")
  /\ UNCHANGED <<target, survivors, audit, before, settled, doubtful, alone, publications>>

\* Mutant: the old content is not put back.
KeepNew(p) ==
  /\ PStep(p, "restoring", "resyncing")
  /\ UNCHANGED <<target, survivors, audit, before, settled, doubtful, alone, publications>>

Restore(p) ==
  /\ PStep(p, "restoring", "resyncing")
  /\ Put(before[p])
  /\ UNCHANGED <<audit, before, settled, doubtful, alone, publications>>

\* The failure of the first synchronisation is raised again.
Resync(p) ==
  /\ ppc[p] = "resyncing"
  /\ Synced
  /\ PEnd(p)
  /\ UNCHANGED <<target, settled, doubtful, alone, publications>>

\* CurrentPoolPublishUncertainStateError.
Uncertain(p) ==
  /\ ppc[p] \in {"restoring", "resyncing"}
  /\ doubtful' = TRUE
  /\ PEnd(p)
  /\ UNCHANGED <<target, survivors, settled, alone, publications>>

CutShort(p) == ppc[p] \in {"syncing", "restoring", "resyncing"}

Killed(p) ==
  /\ ppc[p] # "idle"
  /\ PEnd(p)
  /\ doubtful' = (doubtful \/ CutShort(p))
  /\ UNCHANGED <<target, survivors, settled, alone, publications>>

PowerFails ==
  /\ target' \in survivors /\ survivors' = {target'}
  /\ ppc' = [p \in Publishers |-> "idle"]
  /\ audit' = [p \in Publishers |-> Missing]
  /\ before' = [p \in Publishers |-> Missing]
  /\ doubtful' = (doubtful \/ \E p \in Publishers : CutShort(p))
  /\ UNCHANGED <<settled, alone, publications>>

PoolNext ==
  \/ PowerFails
  \/ \E p \in Publishers :
       \/ Verify(p) \/ Compare(p) \/ Replace(p) \/ Sync(p) \/ Same(p)
       \/ SyncFails(p) \/ Restore(p) \/ Resync(p) \/ Uncertain(p) \/ Killed(p)

PoolSpec == PoolInit /\ [][PoolNext]_poolVars

\* What was last reported as published is what readers find and what a power
\* failure leaves, however many publications failed since and were rolled back:
\* unless one is under way, or was uncertain, cut short or overlapped.
PublishedSurvives ==
  settled # Missing /\ ~doubtful /\ (\A p \in Publishers : ~CutShort(p)) =>
    target = settled /\ survivors = {settled}
=============================================================================
