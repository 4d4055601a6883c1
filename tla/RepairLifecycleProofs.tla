------------------------ MODULE RepairLifecycleProofs ------------------------
(***************************************************************************)
(* Theorems about RepairLifecycle for every set of requests and patches and  *)
(* every value of the bounds.                                                *)
(*                                                                         *)
(* The invariant is inductive only together with what the requests in flight  *)
(* hold: the rows their sessions loaded are committed rows, and between its   *)
(* first and last commit an accept() holds the version made from its own      *)
(* proposal.  A second invariant says what holds as long as one request       *)
(* comes after another: what a session has loaded is still so.                *)
(***************************************************************************)
EXTENDS RepairLifecycle, TLAPS

\* Version v was made from proposal p.
Owns(p, v) == /\ p \in DOMAIN proposals
              /\ v \in DOMAIN versions
              /\ versions[v].proposal = p
              /\ proposals[p].patch \in versions[v].content

\* What a request in state q may rely on.
Sound(q) == /\ q \in RequestState
            /\ HoldsProposal(q) => q.proposal \in DOMAIN proposals
            /\ HoldsVersions(q) => q.seen \in DOMAIN versions
            /\ HoldsOwnVersion(q) => Owns(q.proposal, q.version)

VersionRows == /\ versions \in Seq(Version) /\ versions # << >>
               /\ \A i \in DOMAIN versions : versions[i].proposal \in 0..Len(proposals)
               /\ HistoryIsLinear

ProposalRows == /\ proposals \in Seq(Proposal)
                /\ \A p \in DOMAIN proposals :
                       /\ proposals[p].version \in DOMAIN versions
                       /\ proposals[p].accepted # 0 => Owns(p, proposals[p].accepted)

EvidenceRows == /\ validated \in DOMAIN versions
                /\ evaluated \in [version : DOMAIN versions, validation : DOMAIN versions]

Requests == /\ request \in [Request -> RequestState]
            /\ \A r \in Request : Sound(request[r])

IInv == VersionRows /\ ProposalRows /\ EvidenceRows /\ Requests

\* The inductive invariant contains the invariants the runs check.
LEMMA InvariantIsEnough ==
    IInv => /\ HistoryIsLinear /\ AcceptedOwnsVersion
            /\ disturbed \in BOOLEAN => TypeOK
<1> SUFFICES ASSUME IInv PROVE /\ HistoryIsLinear /\ AcceptedOwnsVersion
                               /\ disturbed \in BOOLEAN => TypeOK
  OBVIOUS
<1> USE DEF IInv
<1>1. HistoryIsLinear /\ AcceptedOwnsVersion
  BY DEF VersionRows, ProposalRows, AcceptedOwnsVersion, Owns
<1>2. current \in DOMAIN versions
  BY DEF VersionRows, HistoryIsLinear
<1>3. \A p \in DOMAIN proposals : proposals[p].accepted \in 0..Len(versions)
  <2> SUFFICES ASSUME NEW p \in DOMAIN proposals, proposals[p].accepted # 0
               PROVE  proposals[p].accepted \in 0..Len(versions)
    BY DEF ProposalRows, Proposal, VersionRows
  <2>1. proposals[p].accepted \in DOMAIN versions
    BY DEF ProposalRows, Owns
  <2> QED
    BY <2>1 DEF VersionRows
<1> QED
  BY <1>1, <1>2, <1>3 DEF TypeOK, VersionRows, ProposalRows, EvidenceRows, Requests, Sound, Owns

\* get_current_version answers with a version the session loaded, and the next number
\* is one more than the count of those (workflows.py 58-60 and 131-137).
LEMMA LoadedVersions ==
    ASSUME VersionRows, NEW r \in Request, request[r].seen \in DOMAIN versions
    PROVE  /\ CurrentVersion(r) \in 1..request[r].seen
           /\ CurrentVersion(r) \in DOMAIN versions
           /\ NextNumber(r) = request[r].seen + 1
<1> DEFINE n == request[r].seen
           Highest(i) == \A j \in 1..n : versions[j].number <= versions[i].number
<1>1. n \in 1..Len(versions) /\ Len(versions) \in Nat /\ DOMAIN versions = 1..Len(versions)
  BY DEF VersionRows
<1>2. \A i \in 1..n : versions[i].number = i
  BY <1>1 DEF VersionRows, HistoryIsLinear
<1>3. n \in 1..n /\ Highest(n)
  BY <1>1, <1>2
<1>4. \A i \in 1..n : Highest(i) => i = n
  <2> SUFFICES ASSUME NEW i \in 1..n, Highest(i) PROVE i = n
    OBVIOUS
  <2>1. versions[n].number <= versions[i].number
    BY <1>3
  <2> QED
    BY <1>1, <1>2, <1>3, <2>1
<1>5. (CHOOSE i \in 1..n : Highest(i)) = n
  <2> HIDE DEF Highest, n
  <2> QED
    BY <1>3, <1>4
<1>6. NextNumber(r) = n + 1
  BY <1>1, <1>2, <1>3, <1>5 DEF NextNumber
<1>7. CurrentVersion(r) \in 1..n
  BY <1>3, <1>5 DEF CurrentVersion
<1> QED
  BY <1>1, <1>6, <1>7

-----------------------------------------------------------------------------
(***************************************************************************)
(* Steps.  A step changes the rows, in a way that keeps what requests rely   *)
(* on, and the state of one request.                                         *)
(***************************************************************************)

Rows == << versions, current, proposals, validated, evaluated >>

\* Rows are added, and a proposal's decision changes, but no request that relied on
\* rows before the step has to give up relying on them after it.
RowsKept == \A q : Sound(q) => Sound(q)'

\* A request in a sound state, and the others as they were, are all sound afterwards.
LEMMA RequestStep ==
    ASSUME Requests, RowsKept, NEW r \in Request, NEW q, Sound(q)',
           request' = [request EXCEPT ![r] = q]
    PROVE  Requests'
<1>1. q \in RequestState
  BY DEF Sound
<1>2. request' \in [Request -> RequestState]
  BY <1>1 DEF Requests
<1>3. ASSUME NEW s \in Request PROVE Sound(request[s])'
  <2>1. CASE s = r
    <3>1. request'[s] = q
      BY <2>1 DEF Requests
    <3> QED
      BY <3>1 DEF Sound, Owns
  <2>2. CASE s # r
    <3>1. PICK p : p = request[s]
      OBVIOUS
    <3>2. Sound(p)
      BY <3>1 DEF Requests
    <3>3. Sound(p)'
      BY <3>2 DEF RowsKept
    <3>4. request'[s] = p
      BY <2>2, <3>1 DEF Requests
    <3> QED
      BY <3>3, <3>4 DEF Sound, Owns
  <2> QED
    BY <2>1, <2>2
<1> QED
  BY <1>2, <1>3 DEF Requests

\* While the rows stay, the whole invariant stays if the one request is sound.
LEMMA QuietStep ==
    ASSUME IInv, UNCHANGED Rows, NEW r \in Request, NEW q, Sound(q),
           request' = [request EXCEPT ![r] = q]
    PROVE  IInv'
<1>1. RowsKept
  BY DEF RowsKept, Rows, Sound, Owns
<1>2. Sound(q)'
  BY <1>1 DEF RowsKept
<1>3. Requests'
  BY <1>1, <1>2, RequestStep DEF IInv
<1>4. VersionRows' /\ ProposalRows' /\ EvidenceRows'
  BY DEF IInv, Rows, VersionRows, HistoryIsLinear, ProposalRows, EvidenceRows, Owns
<1> QED
  BY <1>3, <1>4 DEF IInv

\* A request that has ended relies on nothing.
LEMMA IdleIsSound == Sound(Idle)
  BY DEF Idle, Sound, RequestState, Operation, HoldsProposal, HoldsVersions, HoldsOwnVersion

\* The steps that write no row: a request is received, loads, answers, fails or dies.
LEMMA ReadingStep ==
    ASSUME IInv, UNCHANGED Rows, NEW r \in Request,
           \/ \E op \in Operation : Receive(r, op)
           \/ LoadProposal(r) \/ LoadRecord(r) \/ LoadVersions(r)
           \/ GenerateFails(r) \/ CreateFails(r) \/ FinishFails(r) \/ Die(r)
    PROVE  IInv'
<1>1. request[r] \in RequestState /\ Sound(request[r])
  BY DEF IInv, Requests
<1>2. Sound(Idle)
  BY IdleIsSound
<1>3. CASE Done(r)
  BY <1>2, <1>3, QuietStep DEF Done
<1>4. CASE \E op \in Operation : Receive(r, op)
  <2>1. PICK op \in Operation : Receive(r, op)
    BY <1>4
  <2>2. CASE op \in {"generate", "validate", "evaluate"}
    <3>1. PICK q : q = [Idle EXCEPT !.pc = "record", !.op = op]
      OBVIOUS
    <3>2. Sound(q)
      BY <1>2, <2>2, <3>1 DEF Idle, Sound, RequestState, Operation, HoldsProposal,
                               HoldsVersions, HoldsOwnVersion
    <3>3. request' = [request EXCEPT ![r] = q]
      BY <2>1, <2>2, <3>1 DEF Receive
    <3> QED
      BY <3>2, <3>3, QuietStep
  <2>3. CASE op \in {"accept", "reject"}
    <3>1. PICK p \in DOMAIN proposals :
              request' = [request EXCEPT ![r] =
                  [Idle EXCEPT !.pc = "proposal", !.op = op, !.proposal = p]]
      BY <2>1, <2>3 DEF Receive
    <3>2. PICK q : q = [Idle EXCEPT !.pc = "proposal", !.op = op, !.proposal = p]
      OBVIOUS
    <3>3. p \in Nat
      BY DEF IInv, ProposalRows
    <3>4. Sound(q)
      BY <1>2, <2>3, <3>2, <3>3 DEF Idle, Sound, RequestState, Operation, HoldsProposal,
                               HoldsVersions, HoldsOwnVersion
    <3> QED
      BY <3>1, <3>2, <3>4, QuietStep
  <2> QED
    BY <2>2, <2>3 DEF Operation
<1>5. CASE LoadProposal(r) /\ ~ Done(r)
  <2>1. PICK q : q = [request[r] EXCEPT
                          !.status = proposals[request[r].proposal].status,
                          !.pc = IF request[r].op = "reject" THEN "decide" ELSE "record"]
    OBVIOUS
  <2>2. request' = [request EXCEPT ![r] = q]
    BY <1>5, <2>1 DEF LoadProposal, IInv, Requests
  <2>3. request[r].proposal \in DOMAIN proposals /\ request[r].pc = "proposal"
    BY <1>1, <1>5 DEF Sound, HoldsProposal, LoadProposal
  <2>4. proposals[request[r].proposal].status \in Status
    <3>1. proposals[request[r].proposal] \in Proposal
      BY <2>3 DEF IInv, ProposalRows
    <3> QED
      BY <3>1 DEF Proposal
  <2>5. Sound(q)
    BY <1>1, <2>1, <2>3, <2>4 DEF Sound, RequestState, HoldsProposal, HoldsVersions,
                                   HoldsOwnVersion
  <2> QED
    BY <2>2, <2>5, QuietStep
<1>6. CASE LoadRecord(r)
  <2>1. PICK q : q = [request[r] EXCEPT !.current = current, !.pc = "versions"]
    OBVIOUS
  <2>2. request' = [request EXCEPT ![r] = q]
    BY <1>6, <2>1 DEF LoadRecord, IInv, Requests
  <2>3. current \in Nat
    BY DEF IInv, VersionRows, HistoryIsLinear
  <2>4. Sound(q)
    BY <1>1, <1>6, <2>1, <2>3 DEF Sound, RequestState, HoldsProposal, HoldsVersions,
                                   HoldsOwnVersion, LoadRecord
  <2> QED
    BY <2>2, <2>4, QuietStep
<1>7. CASE LoadVersions(r)
  <2>1. PICK q : q = [request[r] EXCEPT !.seen = Len(versions), !.pc = request[r].op]
    OBVIOUS
  <2>2. request' = [request EXCEPT ![r] = q]
    BY <1>7, <2>1 DEF LoadVersions, IInv, Requests
  <2>3. Len(versions) \in Nat /\ Len(versions) \in DOMAIN versions
    BY DEF IInv, VersionRows
  <2>4. Sound(q)
    BY <1>1, <1>7, <2>1, <2>3 DEF Sound, RequestState, Operation, HoldsProposal,
                                   HoldsVersions, HoldsOwnVersion, LoadVersions
  <2> QED
    BY <2>2, <2>4, QuietStep
<1> QED
  BY <1>3, <1>4, <1>5, <1>6, <1>7 DEF GenerateFails, CreateFails, FinishFails, Die

\* The steps that record evidence: a validation run, an evaluation run.
LEMMA EvidenceStep ==
    ASSUME IInv, NEW r \in Request, Validate(r) \/ Evaluate(r)
    PROVE  IInv'
<1>1. request[r] \in RequestState /\ Sound(request[r])
  BY DEF IInv, Requests
<1>2. request[r].pc \in {"validate", "revalidate", "evaluate"}
  BY DEF Validate, Evaluate
<1>3. CurrentVersion(r) \in DOMAIN versions
  BY <1>1, <1>2, LoadedVersions DEF Sound, HoldsVersions, IInv
<1>4. UNCHANGED << versions, current, proposals >>
  BY DEF Validate, Evaluate
<1>5. RowsKept
  BY <1>4 DEF RowsKept, Sound, Owns
<1>6. VersionRows' /\ ProposalRows'
  BY <1>4 DEF IInv, VersionRows, HistoryIsLinear, ProposalRows, Owns
<1>7. EvidenceRows'
  BY <1>3, <1>4 DEF IInv, EvidenceRows, Validate, Evaluate
<1>8. CASE Done(r)
  BY <1>5, <1>8, IdleIsSound, RequestStep, <1>6, <1>7 DEF Done, RowsKept, IInv
<1>9. CASE Validate(r) /\ ~ Done(r)
  <2>1. PICK q : q = [request[r] EXCEPT !.pc = "finish"]
    OBVIOUS
  <2>2. request' = [request EXCEPT ![r] = q] /\ request[r].pc = "revalidate"
    BY <1>9, <2>1 DEF Validate, Goto, IInv, Requests
  <2>3. Sound(q)
    BY <1>1, <2>1, <2>2 DEF Sound, RequestState, HoldsProposal, HoldsVersions,
                             HoldsOwnVersion
  <2> QED
    BY <1>5, <1>6, <1>7, <2>2, <2>3, RequestStep DEF RowsKept, IInv
<1> QED
  BY <1>8, <1>9 DEF Evaluate

\* A new proposal: it refers to a version that exists, and none refers to it yet.
LEMMA GenerateStep ==
    ASSUME IInv, NEW r \in Request, NEW patch \in Patch, Generate(r, patch)
    PROVE  IInv'
<1> DEFINE n == Len(proposals)
<1>1. CurrentVersion(r) \in DOMAIN versions
  BY LoadedVersions DEF Generate, IInv, Requests, Sound, HoldsVersions
<1>2. PICK new : new = [patch |-> patch, version |-> CurrentVersion(r),
                        status |-> "proposed", accepted |-> 0]
  OBVIOUS
<1>3. new \in Proposal
  BY <1>1, <1>2 DEF Proposal, Status, IInv, VersionRows
<1>4. /\ proposals' = Append(proposals, new)
      /\ UNCHANGED << versions, current, validated, evaluated >>
      /\ Done(r)
  BY <1>2 DEF Generate
<1>5. /\ proposals \in Seq(Proposal) /\ n \in Nat /\ DOMAIN proposals = 1..n
      /\ proposals' \in Seq(Proposal) /\ Len(proposals') = n + 1
      /\ DOMAIN proposals' = 1..(n + 1)
      /\ proposals'[n + 1] = new
      /\ \A p \in DOMAIN proposals : proposals'[p] = proposals[p]
  BY <1>3, <1>4 DEF IInv, ProposalRows
<1>6. \A p, v : Owns(p, v) => Owns(p, v)'
  BY <1>4, <1>5 DEF Owns
<1>7. RowsKept
  BY <1>4, <1>5, <1>6 DEF RowsKept, Sound
<1>8. VersionRows'
  BY <1>4, <1>5 DEF IInv, VersionRows, HistoryIsLinear
<1>9. ProposalRows'
  <2>1. ASSUME NEW p \in DOMAIN proposals'
        PROVE  /\ proposals'[p].version \in DOMAIN versions
               /\ proposals'[p].accepted # 0 => Owns(p, proposals[p].accepted)'
    <3>1. CASE p = n + 1
      BY <1>1, <1>2, <1>5, <3>1
    <3>2. CASE p \in DOMAIN proposals
      BY <1>4, <1>5, <1>6, <3>2 DEF IInv, ProposalRows, Owns
    <3> QED
      BY <1>5, <3>1, <3>2
  <2> QED
    BY <1>4, <1>5, <2>1 DEF ProposalRows
<1>10. EvidenceRows'
  BY <1>4 DEF IInv, EvidenceRows
<1> QED
  BY <1>4, <1>7, <1>8, <1>9, <1>10, IdleIsSound, RequestStep DEF Done, RowsKept, IInv

\* A new version.  The number is free and one more than the count of versions loaded,
\* so all of them were loaded: the uniqueness of numbers works as an optimistic lock.
LEMMA CreateStep ==
    ASSUME IInv, NEW r \in Request, CreateVersion(r)
    PROVE  IInv'
<1> DEFINE n == Len(versions)
<1>1. request[r] \in RequestState /\ Sound(request[r]) /\ request[r].pc = "accept"
  BY DEF CreateVersion, IInv, Requests
<1>2. request[r].seen \in DOMAIN versions /\ request[r].proposal \in DOMAIN proposals
  BY <1>1 DEF Sound, HoldsVersions, HoldsProposal
<1>3. BaseOf(r) \in DOMAIN versions /\ NextNumber(r) = request[r].seen + 1
  BY <1>2, LoadedVersions DEF BaseOf, IInv
<1>4. /\ versions \in Seq(Version) /\ n \in Nat \ {0} /\ DOMAIN versions = 1..n
      /\ \A i \in 1..n : versions[i].number = i
  BY DEF IInv, VersionRows, HistoryIsLinear
<1>5. NextNumber(r) = n + 1
  <2>1. NextNumber(r) \notin 1..n
    BY <1>4 DEF CreateVersion, NumberFree
  <2> QED
    BY <1>2, <1>3, <1>4, <2>1
<1>6. PICK new : new = [number |-> NextNumber(r),
                        content |-> versions[BaseOf(r)].content \cup {PatchOf(r)},
                        proposal |-> request[r].proposal]
  OBVIOUS
<1>7. new \in Version
  <2>1. versions[BaseOf(r)] \in Version /\ proposals[request[r].proposal] \in Proposal
    BY <1>2, <1>3, <1>4 DEF IInv, ProposalRows
  <2>2. versions[BaseOf(r)].content \in SUBSET Patch /\ PatchOf(r) \in Patch
    BY <2>1 DEF Version, Proposal, PatchOf
  <2>3. request[r].proposal \in Nat /\ NextNumber(r) \in Nat
    BY <1>1, <1>4, <1>5 DEF RequestState
  <2> QED
    BY <1>6, <2>2, <2>3 DEF Version
<1>8. /\ versions' = Append(versions, new) /\ current' = Len(versions')
      /\ UNCHANGED << proposals, validated, evaluated >>
  BY <1>6 DEF CreateVersion
<1>9. /\ versions' \in Seq(Version) /\ Len(versions') = n + 1
      /\ DOMAIN versions' = 1..(n + 1) /\ versions'[n + 1] = new
      /\ \A i \in DOMAIN versions : versions'[i] = versions[i]
  BY <1>4, <1>7, <1>8
<1>10. \A p, v : Owns(p, v) => Owns(p, v)'
  BY <1>4, <1>8, <1>9 DEF Owns
<1>11. RowsKept
  BY <1>4, <1>8, <1>9, <1>10 DEF RowsKept, Sound
<1>12. VersionRows'
  <2>1. request[r].proposal \in 0..Len(proposals)
    BY <1>2 DEF IInv, ProposalRows
  <2>2. HistoryIsLinear'
    BY <1>4, <1>5, <1>6, <1>8, <1>9 DEF HistoryIsLinear
  <2> QED
    BY <1>4, <1>6, <1>8, <1>9, <2>1, <2>2 DEF IInv, VersionRows
<1>13. ProposalRows'
  <2>1. ASSUME NEW p \in DOMAIN proposals
        PROVE  /\ proposals[p].version \in DOMAIN versions'
               /\ proposals[p].accepted # 0 => Owns(p, proposals[p].accepted)'
    BY <1>4, <1>8, <1>9, <1>10 DEF IInv, ProposalRows, Owns
  <2> QED
    BY <1>8, <2>1 DEF IInv, ProposalRows
<1>14. EvidenceRows'
  BY <1>4, <1>8, <1>9 DEF IInv, EvidenceRows
<1>15. PICK p, k : p = request[r].proposal /\ k = n + 1
  OBVIOUS
<1>16. PICK q : q = [request[r] EXCEPT !.current = k, !.version = k, !.pc = "revalidate"]
  OBVIOUS
<1>17. request' = [request EXCEPT ![r] = q]
  BY <1>9, <1>15, <1>16 DEF CreateVersion, IInv, Requests
<1>18. q \in RequestState
  <2>1. k \in Nat
    BY <1>4, <1>15
  <2> QED
    BY <1>1, <1>16, <2>1 DEF RequestState
<1>19. q.proposal = p /\ q.seen = request[r].seen /\ q.pc = "revalidate" /\ q.version = k
  BY <1>1, <1>15, <1>16 DEF RequestState
<1>20. Owns(p, k)'
  BY <1>2, <1>4, <1>6, <1>8, <1>9, <1>15 DEF Owns, PatchOf
<1>21. Sound(q)'
  <2>1. q.proposal \in DOMAIN proposals' /\ q.seen \in DOMAIN versions'
    BY <1>2, <1>4, <1>8, <1>9, <1>15, <1>19
  <2>2. Owns(q.proposal, q.version)'
    BY <1>19, <1>20
  <2> QED
    BY <1>18, <2>1, <2>2 DEF Sound
<1> QED
  BY <1>11, <1>12, <1>13, <1>14, <1>17, <1>21, RequestStep DEF IInv

\* A decision.  Only the status and the accepted version of one proposal change, and
\* the version an accept() records is the one made from that proposal.
LEMMA DecideStep ==
    ASSUME IInv, NEW r \in Request, Finish(r) \/ Reject(r)
    PROVE  IInv'
<1>1. Sound(request[r]) /\ request[r].pc \in {"finish", "decide"}
  BY DEF Finish, Reject, IInv, Requests
<1>2. PICK p, k : p = request[r].proposal /\ k = request[r].version
  OBVIOUS
<1>3. p \in DOMAIN proposals
  BY <1>1, <1>2 DEF Sound, HoldsProposal
<1>4. /\ proposals \in Seq(Proposal) /\ \A s \in DOMAIN proposals : proposals[s] \in Proposal
      /\ DOMAIN versions = 1..Len(versions) /\ Len(versions) \in Nat
  BY DEF IInv, ProposalRows, VersionRows
<1>5. PICK new : new = IF Finish(r) THEN [proposals[p] EXCEPT !.status = "accepted",
                                                              !.accepted = k]
                       ELSE IF request[r].status = "rejected" THEN proposals[p]
                       ELSE [proposals[p] EXCEPT !.status = "rejected"]
  OBVIOUS
<1>6. proposals' = [proposals EXCEPT ![p] = new]
  BY <1>2, <1>3, <1>4, <1>5 DEF Finish, Reject
<1>7. Finish(r) => Owns(p, k) /\ k \in Nat \ {0}
  <2> SUFFICES ASSUME Finish(r) PROVE Owns(p, k) /\ k \in Nat \ {0}
    OBVIOUS
  <2>1. Owns(p, k)
    BY <1>1, <1>2 DEF Sound, HoldsOwnVersion, Finish
  <2> QED
    BY <1>4, <2>1 DEF Owns
<1>8. /\ new \in Proposal /\ new.patch = proposals[p].patch
      /\ new.version = proposals[p].version
      /\ new.accepted # proposals[p].accepted => Finish(r) /\ new.accepted = k
  <2>1. proposals[p] \in Proposal
    BY <1>3, <1>4
  <2> QED
    BY <1>5, <1>7, <2>1 DEF Proposal, Status
<1>9. UNCHANGED << versions, current, validated, evaluated >> /\ Done(r)
  BY DEF Finish, Reject
<1>10. /\ proposals' \in Seq(Proposal) /\ Len(proposals') = Len(proposals)
       /\ DOMAIN proposals' = DOMAIN proposals
       /\ \A s \in DOMAIN proposals : proposals'[s] = IF s = p THEN new ELSE proposals[s]
  BY <1>3, <1>4, <1>6, <1>8
<1>11. \A s, v : Owns(s, v) => Owns(s, v)'
  BY <1>8, <1>9, <1>10 DEF Owns
<1>12. RowsKept
  BY <1>9, <1>10, <1>11 DEF RowsKept, Sound
<1>13. VersionRows'
  BY <1>9, <1>10 DEF IInv, VersionRows, HistoryIsLinear
<1>14. ProposalRows'
  <2>1. ASSUME NEW s \in DOMAIN proposals', NEW v, v = proposals'[s].accepted
        PROVE  proposals'[s].version \in DOMAIN versions /\ (v # 0 => Owns(s, v)')
    <3>1. CASE s = p /\ Finish(r) /\ new.accepted = k
      BY <1>3, <1>7, <1>8, <1>10, <1>11, <2>1, <3>1 DEF IInv, ProposalRows
    <3>2. CASE proposals'[s].accepted = proposals[s].accepted
      BY <1>8, <1>10, <1>11, <2>1, <3>2 DEF IInv, ProposalRows
    <3> QED
      BY <1>8, <1>10, <3>1, <3>2
  <2>2. ASSUME NEW s \in DOMAIN proposals'
        PROVE  proposals'[s].accepted # 0 => Owns(s, proposals[s].accepted)'
    <3>1. PICK v : v = proposals'[s].accepted
      OBVIOUS
    <3> QED
      BY <2>1, <3>1 DEF Owns
  <2> QED
    BY <1>9, <1>10, <2>1, <2>2 DEF ProposalRows
<1>15. EvidenceRows'
  BY <1>9 DEF IInv, EvidenceRows
<1> QED
  BY <1>9, <1>12, <1>13, <1>14, <1>15, IdleIsSound, RequestStep DEF Done, RowsKept, IInv
-----------------------------------------------------------------------------
\* A freshly uploaded workflow satisfies the invariant.
LEMMA Initially == Init => IInv
<1> SUFFICES ASSUME Init PROVE IInv
  OBVIOUS
<1>1. PICK first : first = [number |-> 1, content |-> {}, proposal |-> 0]
  OBVIOUS
<1>2. first \in Version /\ first.number = 1 /\ first.proposal = 0
  BY <1>1 DEF Version
<1>3. versions = << first >> /\ current = 1 /\ proposals = << >>
  BY <1>1 DEF Init
<1>4. VersionRows
  BY <1>2, <1>3 DEF VersionRows, HistoryIsLinear
<1>5. ProposalRows /\ EvidenceRows
  BY <1>3 DEF Init, ProposalRows, EvidenceRows
<1>6. Requests
  BY IdleIsSound DEF Init, Requests, Sound
<1> QED
  BY <1>4, <1>5, <1>6 DEF IInv

\* Every step of every request keeps the invariant.
LEMMA Inductive == IInv /\ [Next]_vars => IInv'
<1> SUFFICES ASSUME IInv, [Next]_vars PROVE IInv'
  OBVIOUS
<1>1. CASE UNCHANGED vars
  BY <1>1 DEF vars, IInv, VersionRows, HistoryIsLinear, ProposalRows, EvidenceRows, Requests,
              Sound, Owns
<1>2. CASE Next
  <2>1. PICK r \in Request :
            \/ \E op \in Operation : Receive(r, op)
            \/ LoadProposal(r) \/ LoadRecord(r) \/ LoadVersions(r)
            \/ (\E patch \in Patch : Generate(r, patch)) \/ GenerateFails(r)
            \/ CreateVersion(r) \/ CreateFails(r) \/ Validate(r) \/ Finish(r) \/ FinishFails(r)
            \/ Reject(r) \/ Evaluate(r) \/ Die(r)
    BY <1>2 DEF Next
  <2>2. CASE \/ \E op \in Operation : Receive(r, op)
             \/ LoadProposal(r) \/ LoadRecord(r) \/ LoadVersions(r)
             \/ GenerateFails(r) \/ CreateFails(r) \/ FinishFails(r) \/ Die(r)
    <3>1. UNCHANGED Rows
      BY <2>2 DEF Rows, Receive, LoadProposal, LoadRecord, LoadVersions, GenerateFails,
                  CreateFails, FinishFails, Die
    <3> QED
      BY <2>2, <3>1, ReadingStep
  <2> QED
    BY <2>1, <2>2, GenerateStep, CreateStep, EvidenceStep, DecideStep
<1> QED
  BY <1>1, <1>2

\* Type correctness: whatever requests interleave or die, every row that a session or
\* another row refers to exists.
THEOREM RepairTypeCorrect == Spec => []TypeOK
<1> DEFINE Flag == disturbed \in BOOLEAN
<1>1. IInv /\ Flag => TypeOK
  BY InvariantIsEnough
<1>2. Init => Flag
  BY DEF Init
<1>3. Flag /\ [Next]_vars => Flag'
  BY DEF vars, Next, Receive, LoadProposal, LoadRecord, LoadVersions, Generate, GenerateFails,
         CreateVersion, CreateFails, Validate, Finish, FinishFails, Reject, Evaluate, Die
<1> QED
  <2> HIDE DEF Flag
  <2> QED
    BY <1>1, <1>2, <1>3, Initially, Inductive, PTL DEF Spec

\* The versions of a workflow form one gapless history and current_version_id is its
\* newest (workflows.py 58-71 and uq_workflow_version_number).
THEOREM VersionHistoryIsLinear == Spec => []HistoryIsLinear
<1>1. IInv => HistoryIsLinear
  BY InvariantIsEnough
<1> QED
  BY <1>1, Initially, Inductive, PTL DEF Spec

\* accepted_version_id is a version made from the proposal it is stored on, whatever
\* happened between the commits of accept() (repairs.py 97-113).
THEOREM AcceptanceIsFaithful == Spec => []AcceptedOwnsVersion
<1>1. IInv => AcceptedOwnsVersion
  BY InvariantIsEnough
<1> QED
  BY <1>1, Initially, Inductive, PTL DEF Spec

-----------------------------------------------------------------------------
(***************************************************************************)
(* One request after another.                                                *)
(***************************************************************************)

\* A request that will have to decide an open proposal.
Accepting(q) == \/ q.pc \in {"accept", "revalidate", "finish"}
                \/ q.pc \in {"record", "versions"} /\ q.op = "accept"

\* What the session of a request has loaded is still what the tables say.
UpToDate(q) ==
    /\ q.pc = "versions" \/ HoldsVersions(q) => q.current = current
    /\ HoldsVersions(q) /\ q.pc # "revalidate" => q.seen = Len(versions)
    /\ Accepting(q) => proposals[q.proposal].status = "proposed"

\* An accept() of the proposal has created its version and not recorded it yet.
Underway(p) == \E r \in Request : HoldsOwnVersion(request[r]) /\ request[r].proposal = p

VersionsGrow ==
    \A i, j \in DOMAIN versions : i < j => versions[i].content \subseteq versions[j].content

\* Version v contains the patch it was made from; if that proposal is still open though
\* nobody is accepting it, it was left so by a preview that failed, and the patch is one
\* that cannot be applied again.
Told(v) == LET p == versions[v].proposal
           IN  p # 0 => /\ proposals[p].patch \in versions[v].content
                        /\ proposals[p].status = "proposed" =>
                               proposals[p].patch \in Additive \/ Underway(p)

VersionsTell == \A v \in DOMAIN versions : Told(v)

Alone(r) == \A s \in Request : s # r => request[s].pc = "idle"

OneAtATime == \A r \in Request : request[r].pc # "idle" => Alone(r)

InTurn == /\ OneAtATime /\ VersionsGrow /\ VersionsTell
          /\ \A r \in Request : UpToDate(request[r])

Serial == ~ disturbed => InTurn

\* A request alone moves on: it is alone still, and all sessions are up to date.
LEMMA AloneStep ==
    ASSUME IInv, NEW r \in Request, Alone(r), NEW q, UpToDate(q)',
           request' = [request EXCEPT ![r] = q]
    PROVE  OneAtATime' /\ \A s \in Request : UpToDate(request[s])'
<1>1. /\ request \in [Request -> RequestState] /\ request'[r] = q
      /\ \A s \in Request : s # r => request'[s] = request[s] /\ request[s].pc = "idle"
  BY DEF IInv, Requests, Alone
<1>2. OneAtATime'
  BY <1>1 DEF OneAtATime, Alone
<1>3. ASSUME NEW s \in Request PROVE UpToDate(request[s])'
  <2>1. CASE s = r
    BY <1>1, <2>1 DEF UpToDate
  <2>2. CASE s # r
    BY <1>1, <2>2 DEF UpToDate, HoldsVersions, Accepting
  <2> QED
    BY <2>1, <2>2
<1> QED
  BY <1>2, <1>3

\* A request that was not between the commits of an accept() is none of those whose
\* decision is under way.
LEMMA NotUnderway ==
    ASSUME NEW r \in Request, Alone(r), ~ HoldsOwnVersion(request[r]), NEW p
    PROVE  ~ Underway(p)
  BY DEF Underway, Alone, HoldsOwnVersion

\* Requests that end or never held anything are up to date.
LEMMA IdleIsUpToDate == UpToDate(Idle)'
  BY DEF UpToDate, Idle, HoldsVersions, Accepting

\* The steps that write no row and no decision, and keep the request's own version.
LEMMA ReadingTurn ==
    ASSUME IInv, InTurn, UNCHANGED << versions, current, proposals >>,
           NEW r \in Request, Alone(r), NEW q, UpToDate(q)',
           request' = [request EXCEPT ![r] = q],
           HoldsOwnVersion(request[r]) =>
               \/ HoldsOwnVersion(q) /\ q.proposal = request[r].proposal
               \/ proposals[request[r].proposal].patch \in Additive
    PROVE  InTurn'
<1>1. OneAtATime' /\ \A s \in Request : UpToDate(request[s])'
  BY AloneStep
<1>2. request \in [Request -> RequestState] /\ request'[r] = q
  BY DEF IInv, Requests
<1>3. ASSUME NEW p, Underway(p) PROVE Underway(p)' \/ proposals[p].patch \in Additive
  <2>1. HoldsOwnVersion(request[r]) /\ request[r].proposal = p
    BY <1>3 DEF Underway, Alone, HoldsOwnVersion
  <2> QED
    BY <1>2, <2>1 DEF Underway, HoldsOwnVersion
<1>4. VersionsTell'
  BY <1>3 DEF InTurn, VersionsTell, Told
<1> QED
  BY <1>1, <1>4 DEF InTurn, VersionsGrow

\* A request is received while none is in flight, or else the flag is raised.
LEMMA ReceiveTurn ==
    ASSUME IInv, InTurn, ~ disturbed', NEW r \in Request, NEW op \in Operation,
           Receive(r, op)
    PROVE  InTurn'
<1>1. Alone(r) /\ request[r].pc = "idle"
  BY DEF Receive, Alone
<1>2. PICK q : /\ request' = [request EXCEPT ![r] = q]
               /\ q.pc \in {"record", "proposal"} /\ (q.pc = "record" => q.op # "accept")
  <2>1. CASE op \in {"generate", "validate", "evaluate"}
    <3>1. PICK q : q = [Idle EXCEPT !.pc = "record", !.op = op]
      OBVIOUS
    <3>2. q.pc = "record" /\ q.op = op
      BY <3>1 DEF Idle
    <3> QED
      BY <2>1, <3>1, <3>2 DEF Receive
  <2>2. CASE op \in {"accept", "reject"}
    <3>1. PICK p \in DOMAIN proposals :
              request' = [request EXCEPT ![r] =
                  [Idle EXCEPT !.pc = "proposal", !.op = op, !.proposal = p]]
      BY <2>2 DEF Receive
    <3>2. PICK q : q = [Idle EXCEPT !.pc = "proposal", !.op = op, !.proposal = p]
      OBVIOUS
    <3>3. q.pc = "proposal"
      BY <3>2 DEF Idle
    <3> QED
      BY <3>1, <3>2, <3>3
  <2> QED
    BY <2>1, <2>2 DEF Operation
<1>3. UpToDate(q)'
  BY <1>2 DEF UpToDate, HoldsVersions, Accepting
<1> QED
  BY <1>1, <1>2, <1>3, ReadingTurn DEF Receive, HoldsOwnVersion

\* The reads of a request, its failures and its evidence.
LEMMA LoadTurn ==
    ASSUME IInv, InTurn, NEW r \in Request,
           \/ LoadProposal(r) \/ LoadRecord(r) \/ LoadVersions(r)
           \/ GenerateFails(r) \/ CreateFails(r) \/ FinishFails(r)
           \/ Validate(r) \/ Evaluate(r)
    PROVE  InTurn'
<1>1. /\ request \in [Request -> RequestState] /\ Sound(request[r]) /\ UpToDate(request[r])
      /\ request[r] \in RequestState
  BY DEF IInv, Requests, InTurn
<1>2. Alone(r)
  BY DEF LoadProposal, LoadRecord, LoadVersions, GenerateFails, CreateFails, FinishFails,
         Validate, Evaluate, InTurn, OneAtATime
<1>3. UNCHANGED << versions, current, proposals >>
  BY DEF LoadProposal, LoadRecord, LoadVersions, GenerateFails, CreateFails, FinishFails,
         Validate, Evaluate
<1>4. CASE Done(r) /\ ~ FinishFails(r) /\ ~ HoldsOwnVersion(request[r])
  BY <1>2, <1>3, <1>4, IdleIsUpToDate, ReadingTurn DEF Done
<1>5. CASE FinishFails(r)
  <2>1. proposals[request[r].proposal].patch \in Additive
    BY <1>5 DEF FinishFails, Applies, PatchOf
  <2> QED
    BY <1>2, <1>3, <1>5, <2>1, IdleIsUpToDate, ReadingTurn DEF FinishFails, Done
<1>6. CASE LoadProposal(r) /\ ~ Done(r)
  <2>1. PICK q : q = [request[r] EXCEPT
                          !.status = proposals[request[r].proposal].status,
                          !.pc = IF request[r].op = "reject" THEN "decide" ELSE "record"]
    OBVIOUS
  <2>2. request' = [request EXCEPT ![r] = q] /\ request[r].pc = "proposal"
    BY <1>1, <1>6, <2>1 DEF LoadProposal
  <2>3. /\ q.pc \in {"decide", "record"} /\ q.op = request[r].op
        /\ q.proposal = request[r].proposal
    BY <1>1, <2>1 DEF RequestState
  <2>4. UpToDate(q)'
    BY <1>3, <1>6, <2>3 DEF UpToDate, HoldsVersions, Accepting, LoadProposal
  <2> QED
    BY <1>2, <1>3, <2>2, <2>4, ReadingTurn DEF HoldsOwnVersion
<1>7. CASE LoadRecord(r)
  <2>1. PICK q : q = [request[r] EXCEPT !.current = current, !.pc = "versions"]
    OBVIOUS
  <2>2. request' = [request EXCEPT ![r] = q] /\ request[r].pc = "record"
    BY <1>1, <1>7, <2>1 DEF LoadRecord
  <2>3. /\ q.pc = "versions" /\ q.op = request[r].op /\ q.current = current
        /\ q.proposal = request[r].proposal
    BY <1>1, <2>1 DEF RequestState
  <2>4. UpToDate(q)'
    BY <1>1, <1>3, <2>2, <2>3 DEF UpToDate, HoldsVersions, Accepting
  <2> QED
    BY <1>2, <1>3, <2>2, <2>4, ReadingTurn DEF HoldsOwnVersion
<1>8. CASE LoadVersions(r)
  <2>1. PICK q : q = [request[r] EXCEPT !.seen = Len(versions), !.pc = request[r].op]
    OBVIOUS
  <2>2. request' = [request EXCEPT ![r] = q] /\ request[r].pc = "versions"
    BY <1>1, <1>8, <2>1 DEF LoadVersions
  <2>3. /\ q.pc = request[r].op /\ q.pc \in Operation /\ q.current = request[r].current
        /\ q.seen = Len(versions) /\ q.proposal = request[r].proposal
    BY <1>1, <2>1 DEF RequestState
  <2>4. UpToDate(q)'
    BY <1>1, <1>3, <2>2, <2>3 DEF UpToDate, HoldsVersions, Accepting, Operation
  <2> QED
    BY <1>2, <1>3, <2>2, <2>4, ReadingTurn DEF HoldsOwnVersion
<1>9. CASE Validate(r) /\ request[r].pc = "revalidate"
  <2>1. PICK q : q = [request[r] EXCEPT !.pc = "finish"]
    OBVIOUS
  <2>2. request' = [request EXCEPT ![r] = q] /\ request[r].pc = "revalidate"
    BY <1>1, <1>9, <2>1 DEF Validate, Goto
  <2>3. q.pc = "finish" /\ q.proposal = request[r].proposal
    BY <1>1, <2>1 DEF RequestState
  <2>4. UpToDate(q)'
    BY <1>1, <1>3, <2>2, <2>3 DEF UpToDate, HoldsVersions, Accepting
  <2> QED
    BY <1>2, <1>3, <2>2, <2>3, <2>4, ReadingTurn DEF HoldsOwnVersion
<1> QED
  BY <1>4, <1>5, <1>6, <1>7, <1>8, <1>9
     DEF GenerateFails, CreateFails, FinishFails, Validate, Evaluate, LoadProposal,
         HoldsOwnVersion

\* A new proposal: no version was made from it.
LEMMA GenerateTurn ==
    ASSUME IInv, InTurn, NEW r \in Request, NEW patch \in Patch, Generate(r, patch)
    PROVE  InTurn'
<1> DEFINE n == Len(proposals)
<1>1. Alone(r) /\ ~ HoldsOwnVersion(request[r])
  BY DEF InTurn, OneAtATime, Generate, HoldsOwnVersion
<1>2. PICK new : proposals' = Append(proposals, new)
  BY DEF Generate
<1>3. /\ proposals \in Seq(Proposal) /\ n \in Nat
      /\ \A p \in 1..n : proposals'[p] = proposals[p]
  <2>1. proposals \in Seq(Proposal)
    BY DEF IInv, ProposalRows
  <2> QED
    BY <1>2, <2>1
<1>4. UNCHANGED << versions, current >> /\ request' = [request EXCEPT ![r] = Idle]
  BY DEF Generate, Done
<1>5. OneAtATime' /\ \A s \in Request : UpToDate(request[s])'
  BY <1>1, <1>4, AloneStep, IdleIsUpToDate
<1>6. VersionsTell'
  <2> SUFFICES ASSUME NEW v \in DOMAIN versions, versions[v].proposal # 0 PROVE Told(v)'
    BY <1>4 DEF VersionsTell, Told
  <2>1. PICK p : p = versions[v].proposal
    OBVIOUS
  <2>2. p \in 1..n
    BY <1>3, <2>1 DEF IInv, VersionRows
  <2>3. /\ proposals[p].patch \in versions[v].content
        /\ proposals[p].status = "proposed" => proposals[p].patch \in Additive
    BY <1>1, <2>1, NotUnderway DEF InTurn, VersionsTell, Told
  <2> QED
    BY <1>3, <1>4, <2>1, <2>2, <2>3 DEF Told
<1> QED
  BY <1>4, <1>5, <1>6 DEF InTurn, VersionsGrow

\* A new version, made by a request that is alone: its base is the newest version, and if
\* its proposal had made one before, the patch would be in the base and not apply again.
LEMMA CreateTurn ==
    ASSUME IInv, InTurn, NEW r \in Request, CreateVersion(r)
    PROVE  /\ InTurn'
           /\ proposals[request[r].proposal].status = "proposed"
           /\ \A j \in DOMAIN versions : versions[j].proposal # request[r].proposal
           /\ versions'[Len(versions) + 1].proposal = request[r].proposal
           /\ DOMAIN versions' \ DOMAIN versions = {Len(versions) + 1}
<1>1. /\ request \in [Request -> RequestState] /\ Sound(request[r]) /\ UpToDate(request[r])
      /\ request[r] \in RequestState /\ request[r].pc = "accept"
  BY DEF IInv, Requests, InTurn, CreateVersion
<1>2. Alone(r) /\ ~ HoldsOwnVersion(request[r])
  BY <1>1 DEF InTurn, OneAtATime, HoldsOwnVersion
<1>3. PICK n, p : n = Len(versions) /\ p = request[r].proposal
  OBVIOUS
<1>4. /\ versions \in Seq(Version) /\ n \in Nat \ {0} /\ DOMAIN versions = 1..n
      /\ current = n
  BY <1>3 DEF IInv, VersionRows, HistoryIsLinear
<1>5. /\ request[r].seen = n /\ request[r].current = n
      /\ proposals[p].status = "proposed" /\ p \in DOMAIN proposals
  BY <1>1, <1>3, <1>4 DEF UpToDate, HoldsVersions, Accepting, Sound, HoldsProposal
<1>6. BaseOf(r) = n
  BY <1>4, <1>5 DEF BaseOf, CurrentVersion
<1>7. PICK new : new = [number |-> NextNumber(r), content |-> versions[n].content \cup {PatchOf(r)},
                        proposal |-> p]
  OBVIOUS
<1>8. /\ versions' = Append(versions, new) /\ current' = Len(versions')
      /\ UNCHANGED proposals /\ Applies(PatchOf(r), versions[n].content)
  BY <1>3, <1>6, <1>7 DEF CreateVersion
<1>9. /\ Len(versions') = n + 1 /\ DOMAIN versions' = 1..(n + 1) /\ versions'[n + 1] = new
      /\ \A i \in 1..n : versions'[i] = versions[i]
  BY <1>3, <1>4, <1>8
<1>10. /\ new.content = versions[n].content \cup {proposals[p].patch} /\ new.proposal = p
       /\ PatchOf(r) = proposals[p].patch
  BY <1>3, <1>7 DEF PatchOf
<1>11. \A i \in 1..n : versions[i].content \subseteq versions[n].content
  BY <1>4 DEF InTurn, VersionsGrow
<1>12. p \in Nat \ {0}
  BY <1>5 DEF IInv, ProposalRows
<1>13. ASSUME NEW j \in 1..n, versions[j].proposal = p PROVE FALSE
  <2>1. proposals[p].patch \in versions[j].content /\ proposals[p].patch \in Additive
    BY <1>2, <1>4, <1>5, <1>12, <1>13, NotUnderway DEF InTurn, VersionsTell, Told
  <2> QED
    BY <1>8, <1>10, <1>11, <1>13, <2>1 DEF Applies
<1>14. PICK k, q : k = n + 1 /\ q = [request[r] EXCEPT !.current = k, !.version = k,
                                                       !.pc = "revalidate"]
  OBVIOUS
<1>15. request' = [request EXCEPT ![r] = q]
  BY <1>1, <1>9, <1>14 DEF CreateVersion
<1>16. q.pc = "revalidate" /\ q.current = k /\ q.proposal = p
  BY <1>1, <1>3, <1>14 DEF RequestState
<1>17. UpToDate(q)'
  BY <1>5, <1>8, <1>9, <1>14, <1>16 DEF UpToDate, HoldsVersions, Accepting
<1>18. OneAtATime' /\ \A s \in Request : UpToDate(request[s])'
  BY <1>2, <1>15, <1>17, AloneStep
<1>19. VersionsGrow'
  <2> SUFFICES ASSUME NEW i \in 1..(n + 1), NEW j \in 1..(n + 1), i < j
               PROVE  versions'[i].content \subseteq versions'[j].content
    BY <1>9 DEF VersionsGrow
  <2>1. CASE j \in 1..n
    <3>1. i \in 1..n
      BY <1>4, <2>1
    <3> QED
      BY <1>4, <1>9, <2>1, <3>1 DEF InTurn, VersionsGrow
  <2>2. CASE j = n + 1
    <3>1. i \in 1..n
      BY <1>4, <2>2
    <3> QED
      BY <1>9, <1>10, <1>11, <2>2, <3>1
  <2> QED
    BY <1>4, <2>1, <2>2
<1>20. VersionsTell'
  <2>1. Underway(p)'
    BY <1>1, <1>15, <1>16 DEF Underway, HoldsOwnVersion
  <2>2. ASSUME NEW v \in 1..n PROVE Told(v)'
    BY <1>2, <1>4, <1>8, <1>9, <2>2, NotUnderway DEF InTurn, VersionsTell, Told
  <2>3. Told(n + 1)'
    <3>1. PICK v : v = n + 1
      OBVIOUS
    <3>2. Told(v)'
      BY <1>8, <1>9, <1>10, <2>1, <3>1 DEF Told
    <3> QED
      BY <3>1, <3>2 DEF Told
  <2> QED
    BY <1>4, <1>9, <2>2, <2>3 DEF VersionsTell, Told
<1>21. DOMAIN versions' \ DOMAIN versions = {n + 1}
  BY <1>4, <1>9
<1> QED
  BY <1>3, <1>4, <1>5, <1>9, <1>10, <1>13, <1>18, <1>19, <1>20, <1>21 DEF InTurn

\* A decision: a proposal that is decided is not open.
LEMMA DecideTurn ==
    ASSUME IInv, InTurn, NEW r \in Request, Finish(r) \/ Reject(r)
    PROVE  InTurn'
<1>1. PICK p : p = request[r].proposal
  OBVIOUS
<1>2. /\ request[r] \in RequestState /\ Sound(request[r]) /\ UpToDate(request[r])
      /\ request[r].pc \in {"finish", "decide"} /\ Alone(r)
  BY DEF IInv, Requests, InTurn, OneAtATime, Finish, Reject
<1>3. p \in DOMAIN proposals /\ proposals \in Seq(Proposal)
  BY <1>1, <1>2 DEF Sound, HoldsProposal, IInv, ProposalRows
<1>4. /\ DOMAIN proposals' = DOMAIN proposals
      /\ \A s \in DOMAIN proposals : /\ s # p => proposals'[s] = proposals[s]
                                     /\ proposals'[s].patch = proposals[s].patch
  <2>1. PICK new : new = IF Finish(r) THEN [proposals[p] EXCEPT !.status = "accepted",
                                                     !.accepted = request[r].version]
                         ELSE IF request[r].status = "rejected" THEN proposals[p]
                         ELSE [proposals[p] EXCEPT !.status = "rejected"]
    OBVIOUS
  <2>2. proposals' = [proposals EXCEPT ![p] = new]
    BY <1>1, <1>3, <2>1 DEF Finish, Reject
  <2>3. proposals[p] \in Proposal
    BY <1>3
  <2>4. new.patch = proposals[p].patch
    BY <2>1, <2>3 DEF Proposal
  <2> QED
    BY <1>3, <2>2, <2>4
<1>5. HoldsOwnVersion(request[r]) => proposals'[p].status # "proposed"
  <2> SUFFICES ASSUME HoldsOwnVersion(request[r]) PROVE proposals'[p].status # "proposed"
    OBVIOUS
  <2>1. Finish(r)
    BY DEF HoldsOwnVersion, Reject
  <2>2. proposals[p] \in Proposal
    BY <1>3
  <2>3. proposals'[p].status = "accepted"
    BY <1>1, <1>3, <2>1, <2>2 DEF Finish, Proposal
  <2> QED
    BY <2>3
<1>6. proposals'[p].status = "proposed" => proposals[p].status = "proposed"
  <2>1. proposals[p] \in Proposal
    BY <1>3
  <2> QED
    BY <1>1, <1>3, <2>1 DEF Finish, Reject, Proposal
<1>7. UNCHANGED << versions, current >> /\ request' = [request EXCEPT ![r] = Idle]
  BY DEF Finish, Reject, Done
<1>8. OneAtATime' /\ \A s \in Request : UpToDate(request[s])'
  BY <1>2, <1>7, AloneStep, IdleIsUpToDate
<1>9. VersionsTell'
  <2> SUFFICES ASSUME NEW v \in DOMAIN versions, versions[v].proposal # 0 PROVE Told(v)'
    BY <1>7 DEF VersionsTell, Told
  <2>1. PICK s : s = versions[v].proposal
    OBVIOUS
  <2>2. s \in DOMAIN proposals
    BY <1>3, <2>1 DEF IInv, VersionRows
  <2>3. /\ proposals[s].patch \in versions[v].content
        /\ proposals[s].status = "proposed" => proposals[s].patch \in Additive \/ Underway(s)
    BY <2>1 DEF InTurn, VersionsTell, Told
  <2>4. Underway(s) => s = p /\ HoldsOwnVersion(request[r])
    BY <1>1, <1>2 DEF Underway, Alone, HoldsOwnVersion
  <2>5. /\ proposals'[s].patch \in versions[v].content
        /\ proposals'[s].status = "proposed" => proposals'[s].patch \in Additive
    BY <1>4, <1>5, <1>6, <2>2, <2>3, <2>4
  <2> QED
    BY <1>7, <2>1, <2>5 DEF Told
<1> QED
  BY <1>7, <1>8, <1>9 DEF InTurn, VersionsGrow

\* The disjuncts of a request's step that the lemmas above are about.
LEMMA SerialStep == IInv /\ Serial /\ [Next]_vars => Serial'
<1> SUFFICES ASSUME IInv, Serial, [Next]_vars, ~ disturbed' PROVE InTurn'
  BY DEF Serial
<1>1. CASE UNCHANGED vars
  BY <1>1 DEF vars, Serial, InTurn, OneAtATime, Alone, VersionsGrow, VersionsTell, Told,
              Underway, UpToDate
<1>2. CASE Next
  <2>1. ~ disturbed
    BY <1>2 DEF Next, Receive, LoadProposal, LoadRecord, LoadVersions, Generate, GenerateFails,
                CreateVersion, CreateFails, Validate, Finish, FinishFails, Reject, Evaluate, Die
  <2>2. InTurn
    BY <2>1 DEF Serial
  <2>3. PICK r \in Request :
            \/ \E op \in Operation : Receive(r, op)
            \/ LoadProposal(r) \/ LoadRecord(r) \/ LoadVersions(r)
            \/ (\E patch \in Patch : Generate(r, patch)) \/ GenerateFails(r)
            \/ CreateVersion(r) \/ CreateFails(r) \/ Validate(r) \/ Finish(r) \/ FinishFails(r)
            \/ Reject(r) \/ Evaluate(r)
    BY <1>2 DEF Next, Die
  <2> QED
    BY <2>2, <2>3, ReceiveTurn, LoadTurn, GenerateTurn, CreateTurn, DecideTurn
<1> QED
  BY <1>1, <1>2

\* A freshly uploaded workflow has no proposals yet.
LEMMA SerialInit == Init => Serial
  BY DEF Init, Serial, InTurn, OneAtATime, Alone, VersionsGrow, VersionsTell, Told, UpToDate,
         Idle, HoldsVersions, Accepting

LEMMA SerialHolds == Spec => [](IInv /\ Serial)
<1>1. Init => IInv /\ Serial
  BY Initially, SerialInit
<1>2. (IInv /\ Serial) /\ [Next]_vars => (IInv /\ Serial)'
  BY Inductive, SerialStep
<1> QED
  BY <1>1, <1>2, PTL DEF Spec

\* Accepting a repair keeps the repairs accepted before it, while one request comes after
\* another (workflows.py 58-71, repairs.py 97-113).
THEOREM RepairsAccumulate == Spec => []NoRepairIsLost
<1>1. Serial => NoRepairIsLost
  BY DEF Serial, InTurn, VersionsGrow, NoRepairIsLost
<1> QED
  BY <1>1, SerialHolds, PTL

\* A proposal makes a version while it is open and only one, while one request comes after
\* another; the preview that fails leaves it open, but its patch cannot be applied a second
\* time (repairs.py 97-113, 139).
THEOREM OneVersionPerProposal == Spec => DecidedOnce
<1> DEFINE Decided == ~ disturbed' => \A i \in DOMAIN versions' \ DOMAIN versions :
                          LET p == versions'[i].proposal
                          IN  /\ proposals[p].status = "proposed"
                              /\ \A j \in DOMAIN versions : versions[j].proposal # p
<1>1. IInv /\ Serial /\ [Next]_vars => [Decided]_vars
  <2> SUFFICES ASSUME IInv, Serial, [Next]_vars, ~ disturbed',
                      NEW i \in DOMAIN versions' \ DOMAIN versions
               PROVE  /\ proposals[versions'[i].proposal].status = "proposed"
                      /\ \A j \in DOMAIN versions :
                             versions[j].proposal # versions'[i].proposal
    OBVIOUS
  <2>1. PICK r \in Request : CreateVersion(r)
    BY DEF vars, Next, Receive, LoadProposal, LoadRecord, LoadVersions, Generate, GenerateFails,
           CreateFails, Validate, Finish, FinishFails, Reject, Evaluate, Die
  <2>2. InTurn
    BY <2>1 DEF CreateVersion, Serial
  <2>3. /\ proposals[request[r].proposal].status = "proposed"
        /\ \A j \in DOMAIN versions : versions[j].proposal # request[r].proposal
        /\ versions'[i].proposal = request[r].proposal
    BY <2>1, <2>2, CreateTurn
  <2> QED
    BY <2>3
<1>2. Spec => [][Decided]_vars
  BY <1>1, SerialHolds, PTL DEF Spec
<1> QED
  BY <1>2 DEF DecidedOnce
==============================================================================
