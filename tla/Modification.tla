----------------------------- MODULE Modification -----------------------------
(***************************************************************************)
(* One request that asks for a graph to be changed, from the instruction   *)
(* to the graph that is saved or previewed: the workflow of                *)
(* ProcessAgentOrchestrator (agent/orchestrator.py), the calls of the      *)
(* DeepSeek provider or the local rules, the check of the evidence, the    *)
(* patch (Patcher) and the check of gaps in the modify and preview routes. *)
(* The stateless flowchart endpoint goes straight to the provider and has  *)
(* neither check.                                                          *)
(*                                                                         *)
(* Saving the result is in Revisions; sharing and keeping provider results *)
(* is in ModelCache, whose keys hold the whole graph and evidence: here a  *)
(* cached result is one of the answers a call can have.                    *)
(***************************************************************************)
EXTENDS LocalRules, Knowledge, FlowWarnings

CONSTANTS
    ExternalPatch,  \* the patches a model may answer with
    MaxAttempts,    \* llm_max_retries + 1
    MaxOperations   \* the limit of a patch

\* The seed is one file, whose sections have one review status.
ASSUME ModificationAssumption ==
    /\ ExternalPatch \subseteq Seq(Operation) /\ MaxAttempts \in Nat \ {0}
    /\ \A p \in ExternalPatch : Len(p) <= MaxOperations
    /\ \A c, d \in Library : c.ref = d.ref /\ c.ref \in Seed => c.review = d.review

VARIABLES
    stage,
    stateless,      \* the request is for the flowchart endpoint
    allowPending,   \* app_env is development
    external,       \* DeepSeek is configured and the project allows it
    knowledge,      \* knowledge_status: what the search came to, if there was one
    retrieved,      \* evidence reference -> review status
    answers,        \* what the attempts of a provider call have led to
    error           \* the code of the ProviderError, if the call failed

callVars == <<answers, error>>
requestVars == <<stage, stateless, allowPending, external, knowledge, retrieved, callVars>>
vars == <<patchVars, requestVars>>

Stage == {"classify", "retrieve", "provider", "backoff", "evidence", "patch", "gaps",
          "done", "failed"}

KnowledgeStatus == {"not_required", "results", "insufficient_evidence"}

\* Failures that are retried, by the error they end in, and those that are not.
Transient == {"PROVIDER_TIMEOUT", "PROVIDER_RATE_LIMITED", "PROVIDER_UNAVAILABLE",
              "MODEL_OUTPUT_INVALID"}
Permanent == {"PROVIDER_AUTH_FAILED", "PROVIDER_REQUEST_REJECTED"}
Unhandled == "unhandled exception"
LocalError == "INSTRUCTION_INVALID"

\* None stands for null here too, and that is no code.
ASSUME ErrorAssumption == None \notin Transient \cup Permanent \cup {Unhandled, LocalError}

TypeOK ==
    /\ PatchTypeOK
    /\ stage \in Stage
    /\ {stateless, allowPending, external} \subseteq BOOLEAN
    /\ knowledge \in KnowledgeStatus
    /\ DOMAIN retrieved \subseteq Evidence
    /\ \A r \in DOMAIN retrieved : retrieved[r] \in {"approved", "pending"}
    /\ answers \in Seq(Transient \cup Permanent \cup {Unhandled}) /\ Len(answers) <= MaxAttempts
    /\ error \in Transient \cup Permanent \cup {Unhandled, LocalError, None}

Init ==
    /\ PatchInit
    /\ stateless \in BOOLEAN /\ allowPending \in BOOLEAN /\ external \in BOOLEAN
    /\ stateless => allowPending
    /\ stage = IF stateless THEN "provider" ELSE "classify"
    /\ knowledge = "not_required"
    /\ retrieved = <<>>
    /\ answers = <<>>
    /\ error = None

-----------------------------------------------------------------------------
(* The orchestrator up to the provider.                                    *)

Proceed(next) ==
    stage' = next /\ UNCHANGED <<patchVars, stateless, allowPending, external, callVars>>

\* Instructions about the diagram alone need no knowledge.
ClassifyIntent ==
    /\ stage = "classify"
    /\ \E next \in {"retrieve", "provider"} : Proceed(next)
    /\ UNCHANGED <<knowledge, retrieved>>

RetrieveKnowledge ==
    /\ stage = "retrieve"
    /\ \E top \in SearchResults(allowPending) :
          /\ retrieved' \in Retrievals(top)
          /\ knowledge' = IF top = {} THEN "insufficient_evidence" ELSE "results"
    /\ Proceed("provider")

-----------------------------------------------------------------------------
(* The provider.                                                           *)

KeepRequest ==
    UNCHANGED <<stateless, allowPending, external, knowledge, retrieved>>

AfterAnswer == IF stateless THEN "patch" ELSE "evidence"

\* The result arrives; which attempt it took is only reported.
AnswerWith(p) ==
    /\ Receive(p)
    /\ stage' = AfterAnswer
    /\ answers' = <<>>
    /\ UNCHANGED error
    /\ KeepRequest

LocalAnswer ==
    /\ stage = "provider" /\ ~external
    /\ \E p \in LocalPatches(current, retrieved) : Len(p) <= MaxOperations /\ AnswerWith(p)

Fail(code) ==
    /\ stage' = "failed"
    /\ error' = code
    /\ KeepRequest
    /\ UNCHANGED patchVars

\* The instruction matches no rule, or its words match nothing; or the patch is
\* too long to be one, and the exception is not a ProviderError.
LocalFailure ==
    /\ stage = "provider" /\ ~external
    /\ \/ Fail(LocalError)
       \/ /\ \E p \in LocalPatches(current, retrieved) : Len(p) > MaxOperations
          /\ Fail(Unhandled)
    /\ UNCHANGED answers

ExternalAnswer ==
    /\ stage = "provider" /\ external
    /\ \E p \in ExternalPatch : AnswerWith(p)

\* An attempt fails for good.
AttemptIsRefused ==
    /\ stage = "provider" /\ external
    /\ \E code \in Permanent \cup {Unhandled} : answers' = Append(answers, code) /\ Fail(code)

BugRetries == MaxAttempts + 1
Retries == MaxAttempts

\* An attempt fails and may be repeated, unless it was the last.
AttemptFails ==
    /\ stage = "provider" /\ external
    /\ \E code \in Transient :
          /\ answers' = Append(answers, code)
          /\ \/ /\ Len(answers) + 1 < Retries
                /\ stage' = "backoff"
                /\ KeepRequest
                /\ UNCHANGED <<patchVars, error>>
             \/ /\ Len(answers) + 1 >= Retries
                /\ Fail(code)

Retry ==
    /\ stage = "backoff"
    /\ Proceed("provider")
    /\ UNCHANGED <<knowledge, retrieved>>

\* The total timeout may strike at any await: a request or a pause.
TotalTimeout ==
    /\ stage \in {"provider", "backoff"} /\ external
    /\ Fail("PROVIDER_TIMEOUT")
    /\ UNCHANGED answers

-----------------------------------------------------------------------------
(* The patch.                                                              *)

ClaimsOf(o) ==
    IF o.op = "add_node" THEN {o.sap}
    ELSE IF o.op = "update_node" THEN {o.changes.sap} \ {Unset}
    ELSE {}

PatchIsSupported ==
    \A i \in DOMAIN patch : \A sap \in ClaimsOf(patch[i]) :
        SapIsSupported(sap, current, retrieved)

\* validate_patch_evidence, before anything is applied.
ValidateEvidence ==
    /\ stage = "evidence"
    /\ Proceed(IF PatchIsSupported THEN "patch" ELSE "failed")
    /\ UNCHANGED <<knowledge, retrieved>>

WorkOnPatch ==
    /\ stage = "patch"
    /\ ApplyPatch
    /\ stage' = CASE outcome' = "applied" -> IF stateless THEN "done" ELSE "gaps"
                  [] outcome' \in {"refused", "invalid", "unhandled"} -> "failed"
                  [] OTHER -> stage
    /\ KeepRequest
    /\ UNCHANGED callVars

\* _validate_gap_edit: a node that is new counts as one without a gap.
GapBefore(n) == IF n \in NodeIds(current) THEN current.nodes[n].sap.gap ELSE "none"
GapMayBecome(old, new) == old = new \/ (old = "none" /\ new = "candidate")

GapsAreUndecided ==
    \A n \in NodeIds(working) : GapMayBecome(GapBefore(n), working.nodes[n].sap.gap)

ValidateGaps ==
    /\ stage = "gaps"
    /\ Proceed(IF GapsAreUndecided THEN "done" ELSE "failed")
    /\ UNCHANGED <<knowledge, retrieved>>

Next ==
    \/ ClassifyIntent \/ RetrieveKnowledge
    \/ LocalAnswer \/ LocalFailure
    \/ ExternalAnswer \/ AttemptIsRefused \/ AttemptFails \/ Retry \/ TotalTimeout
    \/ ValidateEvidence \/ WorkOnPatch \/ ValidateGaps

Spec == Init /\ [][Next]_vars

-----------------------------------------------------------------------------
(* Properties.                                                             *)

\* The section a reference stands for: one for this module, scope and release
\* and, outside development, one that is approved and licensed.
Source(ref, reviews) ==
    \E c \in Library :
        /\ c.ref = ref /\ c.fits /\ c.release # "other" /\ c.review \in reviews
        /\ allowPending \/ (c.licensed /\ c.review = "approved")

\* What a graph that is saved or previewed newly claims can be traced to the
\* library: a verified item to an approved section, or to an item verified
\* before, also after a search without results, which NewItemsStayPending is about;
\* a gap to evidence, and only as a candidate.  Nothing applied between
\* the check of the patch and the result adds a claim, and what a patch leaves
\* out of a node's metadata does not undo a consultant's decision.
ClaimsAreTraceable ==
    stage = "done" /\ ~stateless =>
        \A n \in NodeIds(working) :
            LET new == working.nodes[n].sap
                old == IF n \in NodeIds(current) THEN current.nodes[n].sap ELSE BlankSap
            IN
            /\ \A i \in new.items \ old.items :
                  /\ i.ref # None =>
                        i.ref \in GraphRefs(current) \/ Source(i.ref, {"approved", "pending"})
                  /\ i.status = "verified" =>
                        i.ref \in VerifiedRefs(current) \/ Source(i.ref, {"approved"})
            /\ new.gap # old.gap => /\ old.gap = "none" /\ new.gap = "candidate"
                                    /\ new.gapRefs # {}
            /\ \A ref \in new.gapRefs \ GraphRefs(current) : Source(ref, {"approved", "pending"})

\* After a search without results a request adds professional fields only as
\* pending, whatever the graph it started from says of others.
NewItemsStayPending ==
    stage = "done" /\ knowledge = "insufficient_evidence" =>
        \A n \in NodeIds(working) :
            LET old == IF n \in NodeIds(current) THEN current.nodes[n].sap ELSE BlankSap IN
            \A i \in working.nodes[n].sap.items \ old.items : i.status # "verified"

\* A provider is asked at most MaxAttempts times, again only after a failure
\* that may pass, and the error reported is that of the last attempt unless the
\* total timeout came before its answer.
AttemptsAreBounded ==
    /\ Len(answers) <= MaxAttempts
    /\ \A i \in 1..(Len(answers) - 1) : answers[i] \in Transient
    /\ stage \in {"provider", "backoff"} =>
          /\ \A i \in DOMAIN answers : answers[i] \in Transient
          /\ Len(answers) < MaxAttempts
    /\ external /\ error # None =>
          \/ error = "PROVIDER_TIMEOUT"
          \/ answers # <<>> /\ error = answers[Len(answers)]

\* The local rules only make patches that apply: once they have found what the
\* instruction is about, nothing refuses the patch but a limit of the document.
LocalPatchesApply ==
    ~external /\ error = None =>
        stage # "failed" \/ (outcome = "invalid" /\ ~FieldsAreValid(working))

\* A step that the local rules add comes between nodes without cutting a way
\* from one to another or opening a new one, whatever edges they move.
InsertKeepsPaths ==
    ~external /\ outcome = "applied" /\ Head(patch).op = "add_node" =>
        \A n \in NodeIds(current) :
            Reach(working, {n}) \cap NodeIds(current) = Reach(current, {n})

\* A flow the local rules create in an empty graph runs from a start to an end
\* past every step; only its decisions lack a second way, and it comes without
\* the warning that a consultant has to confirm it only if it claims nothing, or
\* an approved seed was retrieved.
NewFlowsAreWhole ==
    ~external /\ outcome = "applied" /\ current = EmptyGraph /\ NodeIds(working) # {} =>
        LET w == Warnings(working) IN
        /\ ~w.noStart /\ ~w.noEnd /\ ~w.cycle
        /\ w.isolated = {} /\ w.unreachable = {}
        /\ w.undecided = {n \in NodeIds(working) : working.nodes[n].type = "decision"}
        /\ \/ HasPendingReview(working)
           \/ \A n \in NodeIds(working) : working.nodes[n].sap = BlankSap
           \/ \E r \in Seed \cap DOMAIN retrieved : retrieved[r] = "approved"

\* The warnings a graph comes with say no more and no less than is so: the
\* searches find every node no start node leads to, and a cycle if and only if
\* one can walk around for ever.
WarningsAreTrue ==
    outcome = "applied" =>
        /\ Unreachable(working) =
              IF Starts(working) = {} THEN {} ELSE NodeIds(working) \ Reach(working, Starts(working))
        /\ HasCycle(working) <=> IsCyclic(working)
==============================================================================
