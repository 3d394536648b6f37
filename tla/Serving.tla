------------------------------ MODULE Serving ------------------------------
(***************************************************************************)
(* The policy server (scripts/serve_policy.py with serving.py and           *)
(* checkpoint_manifest.py) and the clients that depend on what it promises:  *)
(* a player at /act, the Go review client, which sends one review in several *)
(* chunks to /evaluate, the parity harness (scripts/serving_parity.py), a    *)
(* warm-up, and operators who replace the model while all the others are     *)
(* being served (scripts/reload_policy.py).                                 *)
(*                                                                         *)
(* Every request has a thread of its own; reloads take the holder's lock;    *)
(* readers take none.  A checkpoint file may be replaced at any time.  The   *)
(* hash of a file is modelled by its content.                               *)
(***************************************************************************)
EXTENDS Integers, Sequences, FiniteSets, SequencesExt

CONSTANTS
    Contents,  \* what a checkpoint file may hold
    Model,     \* content -> [window, lookahead, privileged, loads, logits, action]
    Paths,     \* the paths an operator may name
    Manifest,  \* checkpoint id -> path
    EnvPath,   \* FH_MAHJONG_AI_CHECKPOINT: a path, or None
    Disks,     \* what the paths may hold at the start
    Launches,  \* command lines: see IsLaunch
    Casts,     \* sets of clients that are active together
    Asks,      \* client -> the requests it may make
    Chunks,    \* bound: chunks of a review
    Decisions, \* bound: decisions the parity harness checks
    Writes,    \* bound: how often a checkpoint file is replaced
    None       \* no value

(* What a path may hold besides a checkpoint: nothing, or a FIFO, a device   *)
(* or a file beyond the size cap.                                           *)
Missing == "missing"
Special == "special"

(* `temperature` > 0 turns sampling on; a token is there or it is not.       *)
IsLaunch(l) ==
    /\ l.path \in Paths /\ {l.sampling, l.admin, l.evaluate, l.export} \subseteq BOOLEAN

Clients == UNION Casts

(* What an observation says of its events: `fields` of the contract are      *)
(* there ("none", "some" or "all"), with this window and number of events;   *)
(* `version` says whether the version is the server's; `discards` whether     *)
(* every legal action is of the family that may be sampled.                  *)
Observation ==
    [fields : {"none", "some", "all"}, window : Nat, count : Nat,
     version : BOOLEAN, discards : BOOLEAN]

(* Requests.  `length` and `token`: the body is within the cap, the token is  *)
(* the endpoint's.  An id need not be one of the manifest's.                 *)
ActAsk == [to : {"act"}, obs : Observation, logits : BOOLEAN, length : BOOLEAN, token : BOOLEAN]
EvaluateAsk == [to : {"evaluate"}, obs : Observation, length : BOOLEAN, token : BOOLEAN]
WarmupAsk == [to : {"warmup"}, length : BOOLEAN, token : BOOLEAN]
ReloadAsk ==
    [to : {"reload"}, path : Paths \cup {None}, id : DOMAIN Manifest \cup {"unlisted", None},
     expect : Contents \cup {None}, window : Nat \cup {None}, length : BOOLEAN, token : BOOLEAN]
HealthAsk == [to : {"healthz"}]

ASSUME ModelAssumption ==
    \A c \in Contents :
        /\ {Model[c].loads, Model[c].privileged} \subseteq BOOLEAN
        /\ Model[c].window \in Nat /\ Model[c].lookahead \in Nat

ASSUME PathAssumption ==
    /\ \A id \in DOMAIN Manifest : Manifest[id] \in Paths
    /\ EnvPath \in Paths \cup {None}
    /\ Disks \subseteq [Paths -> Contents]
    /\ None \notin Paths /\ {None, Missing, Special} \cap Contents = {}

ASSUME LaunchAssumption ==
    /\ \A l \in Launches : IsLaunch(l)
    /\ {Chunks, Decisions, Writes} \subseteq Nat

(* A review asks for evaluations, the harness for decisions.                 *)
ASSUME ClientAssumption ==
    /\ \A s \in Casts : IsFiniteSet(s)
    /\ None \notin Clients
    /\ \A c \in Clients : Asks[c] \subseteq ActAsk \cup EvaluateAsk \cup WarmupAsk \cup ReloadAsk
    /\ "reviewer" \in Clients => Asks["reviewer"] \subseteq EvaluateAsk
    /\ "harness" \in Clients => Asks["harness"] \subseteq ActAsk

VARIABLES
    launch, cast,  \* fixed at the start
    disk,          \* path -> what the file holds
    served,        \* PolicyHolder._snapshot
    draws,         \* policy object -> draws from its generator
    lock,          \* PolicyHolder._lock: the client whose thread has it
    req,           \* client -> its request, as its thread sees it
    review,        \* the review client's locals
    parity,        \* the parity harness's locals
    writes

vars == <<launch, cast, disk, served, draws, lock, req, review, parity, writes>>
server == <<served, draws, lock>>

-----------------------------------------------------------------------------
(* The snapshot: an immutable pair of a policy, which is an object of its    *)
(* own with its generator, and the hash of the bytes it was loaded from.     *)
Snapshot(n, c, path) == [object |-> n, policy |-> c, path |-> path, sha |-> c]

Window(c) == Model[c].window

Idle == [at |-> "idle"]

(* `since` is what has been served since the request came (a ghost).         *)
Thread(ask) == [at |-> "read", ask |-> ask, snap |-> None, since |-> {served}]

Goto(c, at) == req' = [req EXCEPT ![c].at = at]

(* Every thread that is under way sees the new snapshot from now on.         *)
Noting(requests, snap) ==
    [c \in DOMAIN requests |->
        IF requests[c].at = "idle" THEN requests[c]
        ELSE [requests[c] EXCEPT !.since = @ \cup {snap}]]

Answer(c, answer) ==
    req' = [req EXCEPT ![c] = [at |-> "answered", ask |-> @.ask, since |-> @.since,
                               answer |-> answer]]

Refuse(c, status) == Answer(c, [status |-> status])

-----------------------------------------------------------------------------
(* The checks of a request. *)

(* Fault: a model without events takes whatever it is sent. *)
DecodesLax(obs, window) ==
    \/ window = 0
    \/ obs.fields = "all" /\ obs.count <= obs.window /\ obs.window = window /\ obs.version

(* observation_from_json, _decode_and_validate_event_history                *)
Decodes(obs, window) ==
    \/ obs.fields = "none" /\ window = 0
    \/ obs.fields = "all" /\ obs.count <= obs.window /\ obs.window = window /\ obs.version

(* The checks before a handler reads its body: the endpoint is enabled, the  *)
(* length is within the cap, the token matches.  /act has no token, but the  *)
(* export of logits does; /warmup is open unless there is an evaluate token. *)
Refused(ask) ==
    CASE ask.to = "act" -> IF ~ask.length \/ (ask.logits /\ ~(launch.export /\ ask.token))
                           THEN 400 ELSE 0
      [] ask.to = "evaluate" -> IF ~launch.evaluate THEN 403
                                ELSE IF ~ask.length THEN 400
                                ELSE IF ~ask.token THEN 403 ELSE 0
      [] ask.to = "reload" -> IF ~launch.admin THEN 403
                              ELSE IF ~ask.length THEN 400
                              ELSE IF ~ask.token THEN 403
                              ELSE IF ask.path = None /\ ask.id = None THEN 400 ELSE 0
      [] ask.to = "warmup" -> IF launch.evaluate /\ ~ask.token THEN 403
                              ELSE IF ~ask.length THEN 400 ELSE 0
      [] ask.to = "healthz" -> 0

Enter(c) ==
    /\ req[c].at = "read"
    /\ IF Refused(req[c].ask) # 0 THEN Refuse(c, Refused(req[c].ask))
       ELSE Goto(c, IF req[c].ask.to = "reload" THEN "lock" ELSE "capture")
    /\ UNCHANGED <<launch, cast, disk, server, review, parity, writes>>

(* One read of the reference describes the whole request. *)
Capture(c) ==
    /\ req[c].at = "capture"
    /\ req' = [req EXCEPT ![c].snap = served, ![c].at = "compute"]
    /\ UNCHANGED <<launch, cast, disk, server, review, parity, writes>>

(* Fault: a warm-up is a decision like any other. *)
SamplesAlways(ask) == launch.sampling /\ (ask.to = "warmup" \/ ask.obs.discards)

-----------------------------------------------------------------------------
(* CheckpointPolicy.choose: sampling draws from the policy's own generator   *)
(* when every legal action belongs to the family; a warm-up is greedy.       *)
Samples(ask) == launch.sampling /\ ask.to = "act" /\ ask.obs.discards

Draw(ask, snap) ==
    IF ask.to \in {"act", "warmup"} /\ Samples(ask)
    THEN draws' = [draws EXCEPT ![snap.object] = @ + 1] ELSE UNCHANGED draws

(* Fault: the hash is that of whatever is served when the answer is written. *)
AttestLate(snap) ==
    [status |-> 200, by |-> snap.policy, object |-> snap.object, path |-> snap.path, sha |-> served.sha,
     window |-> Window(snap.policy), calibrated |-> ~Model[snap.policy].privileged]

(* Fields of a response that describe the checkpoint.  The value is given    *)
(* only for a critic that was trained on what the server is sent.            *)
Attest(snap) ==
    [status |-> 200, by |-> snap.policy, object |-> snap.object, path |-> snap.path, sha |-> snap.sha,
     window |-> Window(snap.policy), calibrated |-> ~Model[snap.policy].privileged]

(* The forward pass, with every row's events validated against the model     *)
(* that was captured ...                                                     *)
Compute(c) ==
    /\ req[c].at = "compute"
    /\ LET ask == req[c].ask
           snap == req[c].snap
       IN IF ask.to \in {"act", "evaluate"} /\ ~Decodes(ask.obs, Window(snap.policy))
          THEN Refuse(c, 400) /\ UNCHANGED draws
          ELSE Draw(ask, snap) /\ Goto(c, "write")
    /\ UNCHANGED <<launch, cast, disk, served, lock, review, parity, writes>>

(* ... and the response. *)
Write(c) ==
    /\ req[c].at = "write"
    /\ Answer(c, Attest(req[c].snap))
    /\ UNCHANGED <<launch, cast, disk, server, review, parity, writes>>

-----------------------------------------------------------------------------
(* PolicyHolder.reload, with the lock held from the first step to the last.  *)

(* resolve_checkpoint_path: the environment goes before the manifest.        *)
Resolve(ask) ==
    IF ask.path # None THEN ask.path
    ELSE IF EnvPath # None THEN EnvPath
    ELSE IF ask.id \in DOMAIN Manifest THEN Manifest[ask.id] ELSE None

(* Fault: reloads are not serialized. *)
LockIgnored(c) == c \in Clients

LockFree(c) == lock = None

TakeLock(c) ==
    /\ req[c].at = "lock" /\ LockFree(c)
    /\ lock' = c
    /\ req' = [req EXCEPT ![c].snap = served, ![c].at = "open"]
    /\ UNCHANGED <<launch, cast, disk, served, draws, review, parity, writes>>

(* _read_and_verify_checkpoint: everything that is known of the file comes   *)
(* from one read of it, and a hash the caller expects is compared before     *)
(* anything is deserialized.                                                *)
Accepts(ask, c) == c \in Contents /\ (ask.expect = None \/ ask.expect = c)

Release(c) == lock' = IF lock = c THEN None ELSE lock

ReadFile(c) ==
    /\ req[c].at = "open"
    /\ LET ask == req[c].ask
           held == IF Resolve(ask) = None THEN Missing ELSE disk[Resolve(ask)]
       IN IF Accepts(ask, held)
          THEN /\ req' = [req EXCEPT ![c] = [at |-> "swap", ask |-> ask, snap |-> @.snap,
                                             since |-> @.since, data |-> held]]
               /\ UNCHANGED lock
          ELSE Refuse(c, 400) /\ Release(c)
    /\ UNCHANGED <<launch, cast, disk, served, draws, review, parity, writes>>

(* from_checkpoint_bytes, _require_servable, and the contract on the window: *)
(* the one that is served, unless the caller names another.                  *)
RequiredWindow(ask, current) ==
    IF ask.window # None THEN ask.window ELSE Window(current.policy)

(* Fault: look-ahead checkpoints are served as well. *)
ServableLax(c) == Model[c].loads

Servable(c) == Model[c].loads /\ Model[c].lookahead = 0

Swap(c) ==
    /\ req[c].at = "swap"
    /\ LET ask == req[c].ask
           data == req[c].data
           new == Snapshot(Len(draws) + 1, data, Resolve(ask))
       IN IF Servable(data) /\ Window(data) = RequiredWindow(ask, req[c].snap)
          THEN /\ served' = new
               /\ draws' = Append(draws, 0)
               /\ req' = [Noting(req, new) EXCEPT ![c] =
                   [at |-> "answered", ask |-> ask, since |-> req[c].since \cup {new},
                    answer |-> [status |-> 200, path |-> Resolve(ask)]]]
          ELSE Refuse(c, 400) /\ UNCHANGED <<served, draws>>
    /\ Release(c)
    /\ UNCHANGED <<launch, cast, disk, review, parity, writes>>

-----------------------------------------------------------------------------
(* Clients.  A player, a warm-up and an operator ask once; an operator's     *)
(* command is refused by reload_policy unless it names a target.             *)
Ask(c) ==
    /\ c \in cast \ {"reviewer", "harness"} /\ req[c].at = "idle"
    /\ \E ask \in Asks[c] : req' = [req EXCEPT ![c] = Thread(ask)]
    /\ UNCHANGED <<launch, cast, disk, server, review, parity, writes>>

Answered(c) == req[c].at = "answered"
Reply(c) == req[c].answer

(* HTTPPolicyClient.Evaluate (Go): a review's chunks one after the other; it *)
(* fails on any error and when two chunks come from different checkpoints.   *)
SendChunk ==
    /\ "reviewer" \in cast /\ review.at = "send" /\ req["reviewer"].at = "idle"
    /\ \E ask \in Asks["reviewer"] : req' = [req EXCEPT !["reviewer"] = Thread(ask)]
    /\ UNCHANGED <<launch, cast, disk, server, review, parity, writes>>

(* Fault: the path alone identifies a checkpoint. *)
InfoPath(reply) == [path |-> reply.path]

(* CheckpointInfo: the path, the hash, and whether values mean anything.     *)
Info(reply) == [path |-> reply.path, sha |-> reply.sha, calibrated |-> reply.calibrated]

ReceiveChunk ==
    /\ "reviewer" \in cast /\ review.at = "send" /\ Answered("reviewer")
    /\ LET reply == Reply("reviewer") IN
       IF reply.status # 200 \/ (review.parts # <<>> /\ Info(reply) # Info(Last(review.parts)))
       THEN review' = [at |-> "failed", parts |-> <<>>]
       ELSE LET parts == Append(review.parts, reply)
            IN review' = [at |-> IF Len(parts) = Chunks THEN "done" ELSE "send", parts |-> parts]
    /\ req' = [req EXCEPT !["reviewer"] = Idle]
    /\ UNCHANGED <<launch, cast, disk, server, parity, writes>>

(* run_serving_parity in --endpoint mode: the reference is loaded from the   *)
(* file, the endpoint's hash is compared with a second read of the file, and *)
(* then every decision's logits and action are compared.                     *)
LoadReference ==
    /\ "harness" \in cast /\ parity.at = "load"
    /\ \E path \in Paths :
           parity' = IF disk[path] \notin Contents \/ ~Model[disk[path]].loads
                     THEN [parity EXCEPT !.at = "failed"]
                     ELSE [parity EXCEPT !.at = "healthz", !.path = path, !.model = disk[path]]
    /\ UNCHANGED <<launch, cast, disk, server, req, review, writes>>

AskHealth ==
    /\ parity.at = "healthz" /\ req["harness"].at = "idle"
    /\ req' = [req EXCEPT !["harness"] = Thread([to |-> "healthz"])]
    /\ UNCHANGED <<launch, cast, disk, server, review, parity, writes>>

(* verify_endpoint_checkpoint_identity *)
CheckIdentity ==
    /\ parity.at = "healthz" /\ Answered("harness")
    /\ parity' = [parity EXCEPT
           !.at = IF Reply("harness").sha = disk[parity.path] THEN "act" ELSE "failed"]
    /\ req' = [req EXCEPT !["harness"] = Idle]
    /\ UNCHANGED <<launch, cast, disk, server, review, writes>>

(* build_act_payload: the window is the reference's own, and logits are      *)
(* always asked for.                                                        *)
SendDecision ==
    /\ parity.at = "act" /\ req["harness"].at = "idle"
    /\ \E ask \in Asks["harness"] :
           req' = [req EXCEPT !["harness"] =
               Thread([ask EXCEPT !.obs.window = Window(parity.model), !.logits = TRUE])]
    /\ UNCHANGED <<launch, cast, disk, server, review, parity, writes>>

(* Fault: the action alone is compared. *)
AgreesOnAction(reply) == Model[reply.by].action = Model[parity.model].action

(* The logits that came must be the reference's, and so must the action,     *)
(* which a server that samples may have drawn.                              *)
Agrees(reply) ==
    /\ Model[reply.by].logits = Model[parity.model].logits
    /\ Model[reply.by].action = Model[parity.model].action

CompareDecision ==
    /\ parity.at = "act" /\ Answered("harness")
    /\ LET reply == Reply("harness") IN
       \E same \in IF Samples(req["harness"].ask) THEN BOOLEAN ELSE {TRUE} :
       parity' = IF reply.status # 200 \/ ~Agrees(reply) \/ ~same THEN [parity EXCEPT !.at = "failed"]
                 ELSE [parity EXCEPT !.checked = Append(@, reply),
                                     !.at = IF Len(parity.checked) + 1 = Decisions
                                            THEN "passed" ELSE "act"]
    /\ req' = [req EXCEPT !["harness"] = Idle]
    /\ UNCHANGED <<launch, cast, disk, server, review, writes>>

(* Somebody replaces a checkpoint file. *)
Replace ==
    /\ writes < Writes /\ writes' = writes + 1
    /\ \E path \in Paths, c \in Contents \cup {Missing, Special} :
           c # disk[path] /\ disk' = [disk EXCEPT ![path] = c]
    /\ UNCHANGED <<launch, cast, server, req, review, parity>>

-----------------------------------------------------------------------------
(* main: the first policy is loaded from one read of its file. *)
Init ==
    /\ launch \in Launches /\ cast \in Casts
    /\ disk \in {d \in Disks : Servable(d[launch.path])}
    /\ served = Snapshot(1, disk[launch.path], launch.path)
    /\ draws = <<0>>
    /\ lock = None
    /\ req = [c \in Clients |-> Idle]
    /\ review = [at |-> "send", parts |-> <<>>]
    /\ parity = [at |-> "load", path |-> None, model |-> None, checked |-> <<>>]
    /\ writes = 0

Serve(c) ==
    Enter(c) \/ Capture(c) \/ Compute(c) \/ Write(c) \/ TakeLock(c) \/ ReadFile(c) \/ Swap(c)

(* Nothing is under way.  There is no other way to stop: TLC's search for     *)
(* deadlocks shows that every request is answered, and that a reload which   *)
(* fails, at whatever step, does not keep the lock from the next one.        *)
Quiet ==
    /\ \A c \in Clients : req[c].at \in {"idle", "answered"}
    /\ UNCHANGED vars

Next ==
    \/ \E c \in cast : Serve(c) \/ Ask(c)
    \/ SendChunk \/ ReceiveChunk
    \/ LoadReference \/ AskHealth \/ CheckIdentity \/ SendDecision \/ CompareDecision
    \/ Replace \/ Quiet

Spec == Init /\ [][Next]_vars

-----------------------------------------------------------------------------
(* Types; the lock belongs to a thread that reloads. *)
TypeOK ==
    /\ served.policy \in Contents /\ served.path \in Paths /\ served.object \in DOMAIN draws
    /\ lock = None \/ req[lock].at \in {"open", "swap"}
    /\ \A c \in Clients : req[c].at \in
           {"idle", "read", "capture", "compute", "write", "lock", "open", "swap", "answered"}
    /\ review.at \in {"send", "failed", "done"}
    /\ parity.at \in {"load", "healthz", "act", "failed", "passed"}

(* An answer says which checkpoint gave it, and says it truly: path, window   *)
(* and hash are those of the checkpoint that computed it, which was being     *)
(* served at some moment of the request (PolicyHolder.snapshot).              *)
Truthful(reply, since) ==
    \E s \in since :
        /\ reply.by = s.policy /\ reply.path = s.path /\ reply.sha = s.policy
        /\ reply.window = Window(s.policy)

(* No decision is made for a caller that speaks of another window of events   *)
(* than the model has, also after a roll-back to a model without events       *)
(* (observation_from_json).                                                   *)
SameWindow(ask, reply) ==
    ask.to \in {"act", "evaluate"} =>
        IF ask.obs.fields = "none" THEN reply.window = 0
        ELSE ask.obs.fields = "all" /\ ask.obs.window = reply.window

(* Every successful answer attests the checkpoint that computed it, whatever  *)
(* was reloaded meanwhile, and that is one which understood the question.     *)
Attested ==
    \A c \in Clients : Answered(c) /\ Reply(c).status = 200 /\ req[c].ask.to # "reload" =>
        Truthful(Reply(c), req[c].since) /\ SameWindow(req[c].ask, Reply(c))

(* A swap replaces a whole snapshot by one whose content the request that     *)
(* asked for it would accept, that the server can serve, and whose window is  *)
(* that of the model it replaces unless the request names it: what two        *)
(* operators do at once never adds up to something neither asked for          *)
(* (PolicyHolder.reload).                                                    *)
SwapsAreGuarded ==
    [][served' # served =>
         \E c \in cast :
             LET ask == req[c].ask IN
             /\ req[c].at = "swap" /\ req'[c].at = "answered"
             /\ served'.policy = served'.sha
             /\ ask.expect # None => served'.sha = ask.expect
             /\ Window(served'.policy) =
                    IF ask.window = None THEN Window(served.policy) ELSE ask.window
             /\ Model[served'.policy].lookahead = 0]_vars

(* A review that is delivered was made by one checkpoint from its first chunk *)
(* to its last (HTTPPolicyClient.Evaluate, _handle_evaluate).                *)
ReviewsAreWhole ==
    review.at = "done" => \A i, j \in 1 .. Chunks : review.parts[i].by = review.parts[j].by

(* When the parity gate passes, every decision it checked was computed by the *)
(* very checkpoint it was asked about (run_serving_parity).                  *)
ParityMeansSame ==
    parity.at = "passed" => \A i \in 1 .. Decisions : parity.checked[i].by = parity.model

(* Warming a server up leaves the games it will play as they were: a policy's *)
(* generator has been drawn from once for every decision that was sampled     *)
(* from it, and for nothing else (choose, force_greedy).                     *)
Decided(c, object) ==
    /\ req[c].at \in {"write", "answered"} /\ req[c].ask.to = "act" /\ req[c].ask.obs.discards
    /\ \/ req[c].at = "write" /\ req[c].snap.object = object
       \/ Answered(c) /\ Reply(c).status = 200 /\ Reply(c).object = object
WarmupIsInvisible ==
    "harness" \notin cast => \A n \in DOMAIN draws :
        draws[n] = IF launch.sampling THEN Cardinality({c \in cast : Decided(c, n)}) ELSE 0
=============================================================================
