--------------------------- MODULE RepairLifecycle ---------------------------
(***************************************************************************)
(* Repair proposals and the versions of one workflow: services/repairs.py    *)
(* over services/workflows.py, as concurrent API requests, each with its own *)
(* SQLAlchemy session.                                                       *)
(*                                                                         *)
(* A session is committed several times within one accept() and keeps what it *)
(* loaded (expire_on_commit=False, db/session.py): rows are read once, by     *)
(* separate SELECTs, and later steps of the request use those copies.  The    *)
(* one thing requests race for that the database guards is the uniqueness of  *)
(* a workflow's version numbers.                                             *)
(***************************************************************************)
EXTENDS Naturals, Sequences, FiniteSets

CONSTANTS Request,       \* API requests in flight at once
          Patch,         \* repair patches
          Additive,      \* the patches that cannot be applied twice: ADD_NODE,
                         \* ADD_EDGE and REMOVE_EDGE raise the second time
          MayDie,        \* whether a request may die between two commits
          MaxProposals,  \* bound: proposals generated
          MaxVersions    \* bound: versions created

ASSUME LifecycleAssumption ==
    /\ Additive \subseteq Patch /\ MayDie \in BOOLEAN
    /\ MaxProposals \in Nat /\ MaxVersions \in Nat

VARIABLES versions,   \* workflow_versions rows, in the order they were committed
          current,    \* current_version_id: an index into versions
          proposals,  \* repair_proposals rows, in order
          validated,  \* the version the newest validation_runs row is about
          evaluated,  \* the newest evaluation run: its version and its validation's
          request,    \* what each request is doing, and the rows its session holds
          disturbed   \* history: two requests overlapped, or one of them died

vars == << versions, current, proposals, validated, evaluated, request, disturbed >>

Operation == {"generate", "accept", "reject", "validate", "evaluate"}

Idle == [pc |-> "idle", op |-> "validate", proposal |-> 0, status |-> "none",
         current |-> 0, seen |-> 0, version |-> 0]
-----------------------------------------------------------------------------
(* Operators named Bug... are plausible mistakes, not the code.                *)

\* RepairPatchApplier.apply raises when an addition is already there, or when what
\* is to be removed no longer is.
Applies(patch, content) == patch \notin Additive \/ patch \notin content

\* get_current_version: among the versions the session has loaded, the one that is
\* current, or else the one with the highest number.
CurrentVersion(r) ==
    LET loaded == 1..request[r].seen
    IN  IF request[r].current \in loaded THEN request[r].current
        ELSE CHOOSE i \in loaded : \A j \in loaded : versions[j].number <= versions[i].number

\* The patch a proposal stores, and the version accept() applies it to.
PatchOf(r) == proposals[request[r].proposal].patch

BugBaseOf(r) == proposals[request[r].proposal].version

BaseOf(r) == CurrentVersion(r)

\* create_version_from_canonical: one more than the highest number loaded.
NextNumber(r) ==
    1 + versions[CHOOSE i \in 1..request[r].seen :
                     \A j \in 1..request[r].seen : versions[j].number <= versions[i].number].number

BugNumberFree(k) == TRUE

\* The constraint uq_workflow_version_number.
NumberFree(k) == \A i \in DOMAIN versions : versions[i].number # k

\* A request ends, with an answer or with an exception nobody catches; what its
\* session did not commit is gone.
Done(r) == request' = [request EXCEPT ![r] = Idle]

Goto(r, pc) == request' = [request EXCEPT ![r].pc = pc]
-----------------------------------------------------------------------------
\* A workflow as upload leaves it: one version, validated.
Init == /\ versions = << [number |-> 1, content |-> {}, proposal |-> 0] >>
        /\ current = 1
        /\ proposals = << >>
        /\ validated = 1
        /\ evaluated = [version |-> 1, validation |-> 1]
        /\ request = [r \in Request |-> Idle]
        /\ disturbed = FALSE

Receive(r, op) ==
    /\ request[r].pc = "idle"
    /\ \/ /\ op \in {"generate", "validate", "evaluate"}
          /\ request' = [request EXCEPT ![r] = [Idle EXCEPT !.pc = "record", !.op = op]]
       \/ /\ op \in {"accept", "reject"}
          /\ \E p \in DOMAIN proposals :
                 request' = [request EXCEPT ![r] =
                     [Idle EXCEPT !.pc = "proposal", !.op = op, !.proposal = p]]
    /\ disturbed' = (disturbed \/ \E other \in Request : request[other].pc # "idle")
    /\ UNCHANGED << versions, current, proposals, validated, evaluated >>

BugAcceptsAnyStatus(r) ==
    /\ request[r].pc = "proposal"
    /\ request' = [request EXCEPT
           ![r].status = proposals[request[r].proposal].status,
           ![r].pc = IF request[r].op = "reject" THEN "decide" ELSE "record"]
    /\ UNCHANGED << versions, current, proposals, validated, evaluated, disturbed >>

\* get(): the proposal row is read; accept() answers at once unless it is proposed.
LoadProposal(r) ==
    LET status == proposals[request[r].proposal].status
    IN  /\ request[r].pc = "proposal"
        /\ IF request[r].op = "accept" /\ status # "proposed" THEN Done(r)
           ELSE request' = [request EXCEPT
                    ![r].status = status,
                    ![r].pc = IF request[r].op = "reject" THEN "decide" ELSE "record"]
        /\ UNCHANGED << versions, current, proposals, validated, evaluated, disturbed >>

\* get_workflow: the workflow row, and then, by another SELECT, its versions.
LoadRecord(r) ==
    /\ request[r].pc = "record"
    /\ request' = [request EXCEPT ![r].current = current, ![r].pc = "versions"]
    /\ UNCHANGED << versions, current, proposals, validated, evaluated, disturbed >>

LoadVersions(r) ==
    /\ request[r].pc = "versions"
    /\ request' = [request EXCEPT ![r].seen = Len(versions), ![r].pc = request[r].op]
    /\ UNCHANGED << versions, current, proposals, validated, evaluated, disturbed >>

\* generate: a patch is built and previewed, then stored; one that does not apply
\* raises in the preview, and nothing is stored.
Generate(r, patch) ==
    /\ request[r].pc = "generate"
    /\ Len(proposals) < MaxProposals
    /\ Applies(patch, versions[CurrentVersion(r)].content)
    /\ proposals' = Append(proposals, [patch |-> patch, version |-> CurrentVersion(r),
                                       status |-> "proposed", accepted |-> 0])
    /\ Done(r)
    /\ UNCHANGED << versions, current, validated, evaluated, disturbed >>

GenerateFails(r) ==
    /\ request[r].pc = "generate"
    /\ \/ Len(proposals) = MaxProposals
       \/ \E patch \in Patch : ~ Applies(patch, versions[CurrentVersion(r)].content)
    /\ Done(r)
    /\ UNCHANGED << versions, current, proposals, validated, evaluated, disturbed >>

\* accept: the candidate becomes a version and the current one, in one commit.  The
\* session's copy of the workflow row is updated, its collection of versions is not.
CreateVersion(r) ==
    LET content == versions[BaseOf(r)].content
    IN  /\ request[r].pc = "accept"
        /\ Len(versions) < MaxVersions
        /\ Applies(PatchOf(r), content)
        /\ NumberFree(NextNumber(r))
        /\ versions' = Append(versions, [number |-> NextNumber(r),
                                         content |-> content \cup {PatchOf(r)},
                                         proposal |-> request[r].proposal])
        /\ current' = Len(versions')
        /\ request' = [request EXCEPT ![r].current = Len(versions'),
                                      ![r].version = Len(versions'), ![r].pc = "revalidate"]
        /\ UNCHANGED << proposals, validated, evaluated, disturbed >>

\* The patch no longer applies (ValueError) or the number is taken (IntegrityError).
CreateFails(r) ==
    /\ request[r].pc = "accept"
    /\ \/ ~ Applies(PatchOf(r), versions[BaseOf(r)].content)
       \/ ~ NumberFree(NextNumber(r))
       \/ Len(versions) = MaxVersions
    /\ Done(r)
    /\ UNCHANGED << versions, current, proposals, validated, evaluated, disturbed >>

\* WorkflowService.validate: get_workflow finds the row in the session's identity
\* map, so the versions it looks among are the ones loaded before.
Validate(r) ==
    /\ request[r].pc \in {"validate", "revalidate"}
    /\ validated' = CurrentVersion(r)
    /\ IF request[r].pc = "validate" THEN Done(r) ELSE Goto(r, "finish")
    /\ UNCHANGED << versions, current, proposals, evaluated, disturbed >>

BugRecordsCurrent(r) ==
    /\ request[r].pc = "finish"
    /\ Applies(PatchOf(r), versions[request[r].version].content)
    /\ proposals' = [proposals EXCEPT ![request[r].proposal].status = "accepted",
                                      ![request[r].proposal].accepted = current]
    /\ Done(r)
    /\ UNCHANGED << versions, current, validated, evaluated, disturbed >>

\* accept, last commit: the decision is recorded once the candidate is previewed.
\* The preview applies the patch again, to the version that already has it.
Finish(r) ==
    /\ request[r].pc = "finish"
    /\ Applies(PatchOf(r), versions[request[r].version].content)
    /\ proposals' = [proposals EXCEPT ![request[r].proposal].status = "accepted",
                                      ![request[r].proposal].accepted = request[r].version]
    /\ Done(r)
    /\ UNCHANGED << versions, current, validated, evaluated, disturbed >>

FinishFails(r) ==
    /\ request[r].pc = "finish"
    /\ ~ Applies(PatchOf(r), versions[request[r].version].content)
    /\ Done(r)
    /\ UNCHANGED << versions, current, proposals, validated, evaluated, disturbed >>

\* reject: no status is refused.  An UPDATE carries the columns that differ from what
\* the session loaded, so a proposal loaded as rejected keeps the status it has.
Reject(r) ==
    /\ request[r].pc = "decide"
    /\ proposals' = IF request[r].status = "rejected" THEN proposals
                    ELSE [proposals EXCEPT ![request[r].proposal].status = "rejected"]
    /\ Done(r)
    /\ UNCHANGED << versions, current, validated, evaluated, disturbed >>

\* EvaluationService.evaluate: the current version, with the findings and the score of
\* the workflow's latest validation.
Evaluate(r) ==
    /\ request[r].pc = "evaluate"
    /\ evaluated' = [version |-> CurrentVersion(r), validation |-> validated]
    /\ Done(r)
    /\ UNCHANGED << versions, current, proposals, validated, disturbed >>

\* The process serving a request dies; what it committed stays.
Die(r) == /\ MayDie
          /\ request[r].pc # "idle"
          /\ Done(r)
          /\ disturbed' = TRUE
          /\ UNCHANGED << versions, current, proposals, validated, evaluated >>

Next == \E r \in Request :
    \/ \E op \in Operation : Receive(r, op)
    \/ LoadProposal(r) \/ LoadRecord(r) \/ LoadVersions(r)
    \/ (\E patch \in Patch : Generate(r, patch)) \/ GenerateFails(r)
    \/ CreateVersion(r) \/ CreateFails(r) \/ Validate(r) \/ Finish(r) \/ FinishFails(r)
    \/ Reject(r) \/ Evaluate(r) \/ Die(r)

Spec == Init /\ [][Next]_vars
-----------------------------------------------------------------------------
Status == {"proposed", "accepted", "rejected"}

Version == [number : Nat, content : SUBSET Patch, proposal : Nat]

Proposal == [patch : Patch, version : Nat, status : Status, accepted : Nat]

\* The rows a session holds, and how far its request has come.
RequestState == [pc : Operation \cup {"idle", "proposal", "record", "versions", "revalidate",
                                      "finish", "decide"},
                 op : Operation, proposal : Nat, status : Status \cup {"none"},
                 current : Nat, seen : Nat, version : Nat]

HoldsProposal(q) == \/ q.pc \in {"proposal", "decide", "accept", "revalidate", "finish"}
                    \/ q.pc \in {"record", "versions"} /\ q.op = "accept"

HoldsVersions(q) == q.pc \in {"generate", "validate", "evaluate", "accept", "revalidate"}

HoldsOwnVersion(q) == q.pc \in {"revalidate", "finish"}

\* The type invariant: every row a session or another row refers to was committed.
TypeOK ==
    /\ versions \in Seq(Version) /\ versions # << >>
    /\ current \in DOMAIN versions
    /\ proposals \in Seq(Proposal)
    /\ \A i \in DOMAIN versions : versions[i].proposal \in 0..Len(proposals)
    /\ \A p \in DOMAIN proposals : /\ proposals[p].version \in DOMAIN versions
                                   /\ proposals[p].accepted \in 0..Len(versions)
    /\ validated \in DOMAIN versions
    /\ evaluated \in [version : DOMAIN versions, validation : DOMAIN versions]
    /\ disturbed \in BOOLEAN
    /\ request \in [Request -> RequestState]
    /\ \A r \in Request :
           /\ HoldsProposal(request[r]) => request[r].proposal \in DOMAIN proposals
           /\ HoldsVersions(request[r]) => request[r].seen \in DOMAIN versions
           /\ HoldsOwnVersion(request[r]) => request[r].version \in DOMAIN versions

\* However requests interleave and die, the versions of a workflow are one history:
\* numbered 1, 2, 3 ... without gap or repeat, and current_version_id is its newest.
\* This is all that the uniqueness of version numbers buys (workflows.py 58-71).
HistoryIsLinear ==
    /\ \A i \in DOMAIN versions : versions[i].number = i
    /\ current = Len(versions)

\* What an accepted proposal points at is a version made from that very proposal, even
\* if other requests created versions between the commits of its accept().
AcceptedOwnsVersion ==
    \A p \in DOMAIN proposals : proposals[p].accepted # 0 =>
        /\ versions[proposals[p].accepted].proposal = p
        /\ proposals[p].patch \in versions[proposals[p].accepted].content

\* Accepting a repair keeps the repairs accepted before it, although the proposal was
\* generated, and previewed, against an older version; as long as no two requests
\* overlap, which nothing in the service prevents.
NoRepairIsLost ==
    ~ disturbed => \A i, j \in DOMAIN versions : i < j => versions[i].content \subseteq versions[j].content

\* A proposal makes a version only while it is open, and only one, however often it is
\* accepted or rejected (docs/architecture.md 163), unless requests overlap or one dies
\* between the commits of its accept().
DecidedOnce ==
    [][~ disturbed' => \A i \in DOMAIN versions' \ DOMAIN versions :
           LET p == versions'[i].proposal
           IN  /\ proposals[p].status = "proposed"
               /\ \A j \in DOMAIN versions : versions[j].proposal # p]_vars
=============================================================================
