--------------------------- MODULE ServingProofs ---------------------------
(***************************************************************************)
(* For every set of checkpoints, clients and requests, with any number of   *)
(* reloads, file replacements and chunks: an answer attests the checkpoint   *)
(* that computed it, a swap is one its operator asked for, a review is made  *)
(* by one checkpoint, the parity gate compares the checkpoint it names, and  *)
(* a warm-up draws nothing.                                                 *)
(***************************************************************************)
EXTENDS Serving, FiniteSetTheorems, TLAPS

Requests == ActAsk \cup EvaluateAsk \cup WarmupAsk \cup ReloadAsk \cup HealthAsk

Snapshots == [object : Nat, policy : Contents, path : Paths, sha : Contents]

(* What a handler knows of its request at each of its stages.               *)
Waiting == [at : {"read", "capture", "lock"}, ask : Requests, snap : {None},
            since : SUBSET Snapshots]
Working == [at : {"compute", "write", "open"}, ask : Requests, snap : Snapshots,
            since : SUBSET Snapshots]
Swapping == [at : {"swap"}, ask : Requests, snap : Snapshots, since : SUBSET Snapshots,
             data : Contents]
Attestations == [status : {200}, by : Contents, object : Nat, path : Paths, sha : Contents,
                 window : Nat, calibrated : BOOLEAN]
Answers == [status : {400, 403}] \cup [status : {200}, path : Paths] \cup Attestations
Done == [at : {"answered"}, ask : Requests, since : SUBSET Snapshots, answer : Answers]

Threads == {Idle} \cup Waiting \cup Working \cup Swapping \cup Done

TypeInv ==
    /\ launch \in Launches /\ cast \in Casts
    /\ disk \in [Paths -> Contents \cup {Missing, Special}]
    /\ served \in Snapshots /\ served.sha = served.policy
    /\ draws \in Seq(Nat) /\ served.object \in 1 .. Len(draws)
    /\ lock \in Clients \cup {None}
    /\ req \in [Clients -> Threads]

(* The thread of client c.  A reload does everything with the lock held, so   *)
(* the snapshot it saw when it took the lock is still the one that is served; *)
(* a reader's snapshot has been served since its request came; and a          *)
(* successful answer is the attestation of such a snapshot.                  *)
ThreadInv(c) ==
    LET r == req[c] IN
    /\ r.at \in {"capture", "compute", "write"} => r.ask.to # "reload"
    /\ r.at \in {"lock", "open", "swap"} => r.ask.to = "reload"
    /\ r.at \in {"read", "capture"} => served \in r.since
    /\ r.at \in {"compute", "write"} =>
           r.snap \in r.since /\ r.snap.sha = r.snap.policy /\ r.snap.object \in 1 .. Len(draws)
    /\ r.at = "write" /\ r.ask.to \in {"act", "evaluate"} =>
           Decodes(r.ask.obs, Window(r.snap.policy))
    /\ r.at \in {"open", "swap"} => lock = c /\ r.snap = served
    /\ r.at = "swap" => Accepts(r.ask, r.data) /\ Resolve(r.ask) # None
    /\ r.at = "answered" /\ r.answer.status = 200 /\ r.ask.to # "reload" =>
           /\ r.answer \in Attestations
           /\ r.answer.object \in 1 .. Len(draws)
           /\ r.answer.sha = r.answer.by
           /\ Truthful(r.answer, r.since) /\ SameWindow(r.ask, r.answer)

LockInv == lock # None => req[lock].at \in {"open", "swap"}

ServerInv == TypeInv /\ LockInv /\ \A c \in Clients : ThreadInv(c)

(* What the reviewer's and the harness's threads were asked: neither ever     *)
(* reloads.                                                                  *)
ClientInv ==
    /\ "reviewer" \in cast /\ req["reviewer"].at # "idle" => req["reviewer"].ask \in EvaluateAsk
    /\ "harness" \in cast /\ req["harness"].at # "idle" =>
           req["harness"].ask \in ActAsk \cup HealthAsk
    /\ "harness" \in cast /\ parity.at = "act" /\ req["harness"].at # "idle" =>
           req["harness"].ask \in ActAsk
    /\ \A c \in cast \ {"reviewer", "harness"} : req[c].at # "idle" => req[c].ask \notin HealthAsk

(* The chunks a review has so far say the same of the checkpoint.           *)
ReviewInv ==
    /\ review \in [at : {"send", "failed", "done"}, parts : Seq(Attestations)]
    /\ \A i, j \in 1 .. Len(review.parts) : review.parts[i].sha = review.parts[j].sha
    /\ \A i \in 1 .. Len(review.parts) : review.parts[i].by = review.parts[i].sha
    /\ review.at = "done" => Len(review.parts) = Chunks

(* The decisions the harness has checked have the logits of its reference.   *)
ParityInv ==
    /\ parity \in [at : {"load", "healthz", "act", "failed", "passed"},
                   path : Paths \cup {None}, model : Contents \cup {None},
                   checked : Seq(Attestations)]
    /\ parity.at \in {"healthz", "act"} => parity.path \in Paths
    /\ parity.at \in {"healthz", "act", "passed"} => "harness" \in cast /\ parity.model \in Contents
    /\ parity.at \in {"load", "healthz"} => parity.checked = <<>>
    /\ \A i \in 1 .. Len(parity.checked) :
           Model[parity.checked[i].by].logits = Model[parity.model].logits
    /\ parity.at = "passed" => Len(parity.checked) = Decisions

Inv == ServerInv /\ ClientInv /\ ReviewInv /\ ParityInv

-----------------------------------------------------------------------------
LEMMA RequestFacts ==
    ASSUME NEW ask \in Requests
    PROVE  /\ ask.to \in {"act", "evaluate", "warmup", "reload", "healthz"}
           /\ ask.to = "reload" => ask \in ReloadAsk
           /\ ask.to = "act" => ask \in ActAsk
           /\ ask.to = "evaluate" => ask \in EvaluateAsk
           /\ ask.to = "healthz" => ask \in HealthAsk
BY DEF Requests, ReloadAsk, ActAsk, EvaluateAsk, WarmupAsk, HealthAsk

(* The stage of a thread tells its shape. *)
LEMMA ThreadFacts ==
    ASSUME NEW r \in Threads
    PROVE  /\ r.at \in {"idle", "read", "capture", "compute", "write", "lock", "open", "swap",
                        "answered"}
           /\ r.at = "idle" => r = Idle
           /\ r.at \in {"read", "capture", "lock"} => r \in Waiting
           /\ r.at \in {"compute", "write", "open"} => r \in Working
           /\ r.at = "swap" => r \in Swapping
           /\ r.at = "answered" => r \in Done
           /\ r.at # "idle" => r.ask \in Requests /\ r.since \in SUBSET Snapshots
BY DEF Threads, Idle, Waiting, Working, Swapping, Done

(* A step of one thread, after which the same checkpoint is served, disturbs  *)
(* no other thread, as long as it does not take the lock from one.           *)
LEMMA OneThread ==
    ASSUME ServerInv, NEW c \in Clients, NEW r \in Threads,
           req' = [req EXCEPT ![c] = r],
           UNCHANGED <<launch, cast, disk, served>>,
           draws' \in Seq(Nat), Len(draws') >= Len(draws),
           lock' \in Clients \cup {None},
           \A d \in Clients : d # c /\ lock = d => lock' = d,
           LockInv', ThreadInv(c)'
    PROVE  ServerInv'
<1>1. TypeInv'
  BY DEF ServerInv, TypeInv
<1>2. \A d \in Clients : d # c => ThreadInv(d)'
  <2> SUFFICES ASSUME NEW d \in Clients, d # c
               PROVE  ThreadInv(d)'
    OBVIOUS
  <2>1. req'[d] = req[d]
    BY DEF ServerInv, TypeInv
  <2>2. ThreadInv(d) /\ Len(draws) \in Nat /\ Len(draws') \in Nat
    BY DEF ServerInv, TypeInv
  <2>3. \A n : n \in 1 .. Len(draws) => n \in 1 .. Len(draws')
    BY <2>2
  <2> QED
    BY <2>1, <2>2, <2>3 DEF ThreadInv, Truthful, Window, Decodes, SameWindow, Accepts, Resolve
<1> QED
  BY <1>1, <1>2 DEF ServerInv

(* A refusal attests nothing. *)
LEMMA RefuseStep ==
    ASSUME ServerInv, NEW c \in Clients, req[c].at # "idle",
           NEW status \in {400, 403}, Refuse(c, status),
           UNCHANGED <<launch, cast, disk, served, draws>>,
           lock = c => lock' = None, lock # c => lock' = lock
    PROVE  ServerInv'
<1> DEFINE r == [at |-> "answered", ask |-> req[c].ask, since |-> req[c].since,
                 answer |-> [status |-> status]]
<1>1. r \in Threads
  <2>1. req[c].ask \in Requests /\ req[c].since \in SUBSET Snapshots
    BY ThreadFacts DEF ServerInv, TypeInv
  <2>2. [status |-> status] \in Answers
    BY DEF Answers
  <2> QED
    BY <2>1, <2>2 DEF Threads, Done
<1>2. req' = [req EXCEPT ![c] = r] /\ req'[c] = r
  BY DEF Refuse, Answer, ServerInv, TypeInv
<1>3. ThreadInv(c)'
  BY <1>2 DEF ThreadInv
<1>4. LockInv'
  <2>1. lock' # None => lock' = lock /\ lock # c /\ lock \in Clients
    BY DEF ServerInv, TypeInv
  <2> QED
    BY <2>1, <1>2 DEF ServerInv, TypeInv, LockInv
<1>5. /\ draws' \in Seq(Nat) /\ Len(draws') >= Len(draws)
      /\ lock' \in Clients \cup {None}
      /\ \A d \in Clients : d # c /\ lock = d => lock' = d
      /\ UNCHANGED <<launch, cast, disk, served>>
  BY DEF ServerInv, TypeInv
<1>6. req' = [req EXCEPT ![c] = r]
  BY <1>2
<1> HIDE DEF r
<1> QED
  BY ONLY ServerInv, c \in Clients, <1>1, <1>3, <1>4, <1>5, <1>6, OneThread

(* A thread that reads, and has not the lock, goes on without it.            *)
LEMMA ReaderStep ==
    ASSUME ServerInv, NEW c \in Clients, NEW r \in Threads,
           req[c].at \notin {"open", "swap"},
           req' = [req EXCEPT ![c] = r],
           UNCHANGED <<launch, cast, disk, served, lock>>,
           draws' \in Seq(Nat), Len(draws') >= Len(draws),
           ThreadInv(c)'
    PROVE  ServerInv'
<1>1. LockInv'
  BY DEF ServerInv, TypeInv, LockInv
<1>2. lock' \in Clients \cup {None} /\ \A d \in Clients : d # c /\ lock = d => lock' = d
  BY DEF ServerInv, TypeInv
<1> QED
  BY <1>1, <1>2, OneThread

LEMMA NoLock ==
    ASSUME ServerInv, NEW c \in Clients, req[c].at \notin {"open", "swap"}
    PROVE  lock # c
BY ClientAssumption DEF ServerInv, TypeInv, LockInv, Clients

LEMMA EnterStep ==
    ASSUME ServerInv, NEW c \in Clients, Enter(c)
    PROVE  ServerInv'
<1>1. req[c] \in Waiting /\ req[c].at = "read" /\ req[c].ask \in Requests
  BY ThreadFacts DEF ServerInv, TypeInv, Enter
<1>2. Refused(req[c].ask) \in {0, 400, 403}
  BY <1>1, RequestFacts DEF Refused
<1>3. CASE Refused(req[c].ask) # 0
  <2>1. lock # c /\ lock' = lock
    BY <1>1, NoLock DEF Enter, server
  <2> QED
    BY <1>1, <1>2, <1>3, <2>1, RefuseStep DEF Enter, server
<1>4. CASE Refused(req[c].ask) = 0
  <2> DEFINE at == IF req[c].ask.to = "reload" THEN "lock" ELSE "capture"
             r == [req[c] EXCEPT !.at = at]
  <2>1. r \in Threads /\ r.at = at /\ r.ask = req[c].ask /\ r.since = req[c].since
    BY <1>1 DEF Waiting, Threads
  <2>2. req' = [req EXCEPT ![c] = r] /\ req'[c] = r
    BY <1>4 DEF Enter, Goto, ServerInv, TypeInv
  <2>3. UNCHANGED <<launch, cast, disk, served, draws, lock>>
    BY DEF Enter, server
  <2>4. ThreadInv(c)'
    BY <1>1, <2>1, <2>2, <2>3 DEF ThreadInv, ServerInv
  <2>5. draws' \in Seq(Nat) /\ Len(draws') >= Len(draws)
    BY <2>3 DEF ServerInv, TypeInv
  <2> QED
    BY <1>1, <2>1, <2>2, <2>3, <2>4, <2>5, ReaderStep
<1> QED
  BY <1>3, <1>4

(* One read of the reference: the snapshot that is captured is being served.  *)
LEMMA CaptureStep ==
    ASSUME ServerInv, NEW c \in Clients, Capture(c)
    PROVE  ServerInv'
<1>1. req[c] \in Waiting /\ req[c].at = "capture"
  BY ThreadFacts DEF ServerInv, TypeInv, Capture
<1> DEFINE r == [req[c] EXCEPT !.snap = served, !.at = "compute"]
<1>2. /\ r \in Threads /\ r.at = "compute" /\ r.snap = served
      /\ r.ask = req[c].ask /\ r.since = req[c].since
  BY <1>1 DEF Waiting, Working, Threads, ServerInv, TypeInv
<1>3. req' = [req EXCEPT ![c] = r] /\ req'[c] = r
  BY DEF Capture, ServerInv, TypeInv
<1>4. UNCHANGED <<launch, cast, disk, served, draws, lock>>
  BY DEF Capture, server
<1>5. ThreadInv(c)'
  BY <1>1, <1>2, <1>3, <1>4 DEF ThreadInv, ServerInv, TypeInv
<1>6. draws' \in Seq(Nat) /\ Len(draws') >= Len(draws)
  BY <1>4 DEF ServerInv, TypeInv
<1> QED
  BY <1>1, <1>2, <1>3, <1>4, <1>5, <1>6, ReaderStep

LEMMA DrawFacts ==
    ASSUME draws \in Seq(Nat), NEW ask, NEW snap, snap.object \in 1 .. Len(draws),
           Draw(ask, snap)
    PROVE  /\ draws' \in Seq(Nat) /\ Len(draws') = Len(draws)
           /\ \A n \in 1 .. Len(draws) : n # snap.object => draws'[n] = draws[n]
<1>1. CASE draws' = [draws EXCEPT ![snap.object] = @ + 1]
  <2>1. draws[snap.object] + 1 \in Nat
    OBVIOUS
  <2> QED
    BY <1>1, <2>1
<1>2. CASE UNCHANGED draws
  BY <1>2
<1> QED
  BY <1>1, <1>2 DEF Draw

(* No forward pass for a question the model does not understand.            *)
LEMMA ComputeStep ==
    ASSUME ServerInv, NEW c \in Clients, Compute(c)
    PROVE  ServerInv'
<1>1. req[c] \in Working /\ req[c].at = "compute"
  BY ThreadFacts DEF ServerInv, TypeInv, Compute
<1>2. UNCHANGED <<launch, cast, disk, served, lock>>
  BY DEF Compute
<1>3. CASE req[c].ask.to \in {"act", "evaluate"}
           /\ ~Decodes(req[c].ask.obs, Window(req[c].snap.policy))
  <2>1. lock # c /\ lock' = lock
    BY <1>1, <1>2, NoLock
  <2> QED
    BY <1>1, <1>2, <1>3, <2>1, RefuseStep DEF Compute
<1>4. CASE ~(req[c].ask.to \in {"act", "evaluate"}
             /\ ~Decodes(req[c].ask.obs, Window(req[c].snap.policy)))
  <2> DEFINE r == [req[c] EXCEPT !.at = "write"]
  <2>1. /\ r \in Threads /\ r.at = "write" /\ r.snap = req[c].snap
        /\ r.ask = req[c].ask /\ r.since = req[c].since
    BY <1>1 DEF Working, Threads
  <2>2. req' = [req EXCEPT ![c] = r] /\ req'[c] = r
    BY <1>4 DEF Compute, Goto, ServerInv, TypeInv
  <2>3. draws' \in Seq(Nat) /\ Len(draws') = Len(draws) /\ Len(draws) \in Nat
    <3>1. Draw(req[c].ask, req[c].snap)
      BY <1>4 DEF Compute
    <3> QED
      BY <1>1, <3>1, DrawFacts DEF ServerInv, TypeInv, ThreadInv
  <2>4. ThreadInv(c)'
    BY <1>1, <1>2, <1>4, <2>1, <2>2, <2>3
    DEF ThreadInv, ServerInv, TypeInv, Decodes, Window
  <2>5. Len(draws') >= Len(draws)
    BY <2>3
  <2> HIDE DEF r
  <2> QED
    BY <1>1, <1>2, <2>1, <2>2, <2>3, <2>4, <2>5, ReaderStep
<1> QED
  BY <1>3, <1>4

(* The response is the attestation of the snapshot that computed it.        *)
LEMMA WriteStep ==
    ASSUME ServerInv, NEW c \in Clients, Write(c)
    PROVE  ServerInv'
<1>1. req[c] \in Working /\ req[c].at = "write"
  BY ThreadFacts DEF ServerInv, TypeInv, Write
<1> DEFINE snap == req[c].snap
           a == Attest(snap)
           r == [at |-> "answered", ask |-> req[c].ask, since |-> req[c].since, answer |-> a]
<1>2. /\ snap \in Snapshots /\ snap \in req[c].since /\ snap.sha = snap.policy
      /\ snap.object \in 1 .. Len(draws) /\ req[c].ask \in Requests
  BY <1>1 DEF Working, ServerInv, ThreadInv
<1>3. a \in Attestations
  BY <1>2, ModelAssumption DEF Attest, Attestations, Snapshots, Window
<1>4. r \in Threads
  BY <1>1, <1>3 DEF Working, Done, Answers, Threads
<1>5. req' = [req EXCEPT ![c] = r] /\ req'[c] = r
  BY DEF Write, Answer, ServerInv, TypeInv
<1>6. UNCHANGED <<launch, cast, disk, served, draws, lock>>
  BY DEF Write, server
<1>7. Truthful(a, req[c].since)
  BY <1>2 DEF Truthful, Attest
<1>8. SameWindow(req[c].ask, a)
  <2> SUFFICES ASSUME req[c].ask.to \in {"act", "evaluate"}
               PROVE  /\ req[c].ask.obs.fields = "none" => a.window = 0
                      /\ req[c].ask.obs.fields # "none" =>
                            req[c].ask.obs.fields = "all" /\ req[c].ask.obs.window = a.window
    BY DEF SameWindow
  <2>1. Decodes(req[c].ask.obs, Window(snap.policy))
    BY <1>1 DEF ServerInv, ThreadInv
  <2> QED
    BY <2>1 DEF Decodes, Attest
<1>9. ThreadInv(c)'
  <2>1. a.sha = a.by /\ a.object \in 1 .. Len(draws)
    BY <1>2 DEF Attest
  <2> HIDE DEF a
  <2> QED
    BY <1>3, <1>5, <1>6, <2>1, <1>7, <1>8 DEF ThreadInv
<1>10. draws' \in Seq(Nat) /\ Len(draws') >= Len(draws)
  BY <1>6 DEF ServerInv, TypeInv
<1> QED
  BY <1>1, <1>4, <1>5, <1>6, <1>9, <1>10, ReaderStep

LEMMA TakeLockStep ==
    ASSUME ServerInv, NEW c \in Clients, TakeLock(c)
    PROVE  ServerInv'
<1>1. req[c] \in Waiting /\ req[c].at = "lock"
  BY ThreadFacts DEF ServerInv, TypeInv, TakeLock
<1> DEFINE r == [req[c] EXCEPT !.snap = served, !.at = "open"]
<1>2. /\ r \in Threads /\ r.at = "open" /\ r.snap = served
      /\ r.ask = req[c].ask /\ r.since = req[c].since
  BY <1>1 DEF Waiting, Working, Threads, ServerInv, TypeInv
<1>3. req' = [req EXCEPT ![c] = r] /\ req'[c] = r
  BY DEF TakeLock, ServerInv, TypeInv
<1>4. UNCHANGED <<launch, cast, disk, served, draws>> /\ lock' = c /\ lock = None
  BY DEF TakeLock, LockFree
<1>5. ThreadInv(c)'
  BY <1>1, <1>2, <1>3, <1>4 DEF ThreadInv, ServerInv
<1>6. LockInv'
  BY <1>2, <1>3, <1>4 DEF LockInv
<1>7. /\ draws' \in Seq(Nat) /\ Len(draws') >= Len(draws)
      /\ lock' \in Clients \cup {None}
      /\ \A d \in Clients : d # c /\ lock = d => lock' = d
      /\ UNCHANGED <<launch, cast, disk, served>>
  BY <1>4, ClientAssumption DEF ServerInv, TypeInv, Clients
<1> HIDE DEF r
<1> QED
  BY ONLY ServerInv, c \in Clients, <1>2, <1>3, <1>5, <1>6, <1>7, OneThread

(* The path of a request is one an operator may name, or there is none. *)
LEMMA ResolveFacts ==
    ASSUME NEW ask \in ReloadAsk
    PROVE  Resolve(ask) \in Paths \cup {None}
BY PathAssumption DEF Resolve, ReloadAsk

(* What is accepted is a checkpoint, and a path was given for it.            *)
LEMMA ReadFileStep ==
    ASSUME ServerInv, NEW c \in Clients, ReadFile(c)
    PROVE  ServerInv'
<1>1. req[c] \in Working /\ req[c].at = "open" /\ req[c].ask.to = "reload" /\ lock = c
  BY ThreadFacts DEF ServerInv, TypeInv, ThreadInv, ReadFile
<1> DEFINE ask == req[c].ask
           held == IF Resolve(ask) = None THEN Missing ELSE disk[Resolve(ask)]
<1>2. UNCHANGED <<launch, cast, disk, served, draws>>
  BY DEF ReadFile
<1>3. CASE Accepts(ask, held)
  <2> DEFINE r == [at |-> "swap", ask |-> ask, snap |-> req[c].snap, since |-> req[c].since,
                   data |-> held]
  <2>1. held \in Contents /\ Resolve(ask) # None
    BY <1>3, PathAssumption DEF Accepts
  <2>2. r \in Threads
    BY <1>1, <2>1 DEF Working, Swapping, Threads
  <2>3. req' = [req EXCEPT ![c] = r] /\ req'[c] = r /\ lock' = lock
    BY <1>3 DEF ReadFile, ServerInv, TypeInv
  <2>4. ThreadInv(c)'
    <3>1. req[c].snap = served
      BY <1>1 DEF ServerInv, ThreadInv
    <3>2. Accepts(ask, held) /\ Resolve(ask) # None
      BY <1>3, <2>1
    <3> HIDE DEF held
    <3> QED
      BY <1>1, <1>2, <2>3, <3>1, <3>2 DEF ThreadInv, Accepts, Resolve
  <2>5. LockInv'
    BY <1>1, <2>3 DEF LockInv
  <2>6. /\ draws' \in Seq(Nat) /\ Len(draws') >= Len(draws)
        /\ lock' \in Clients \cup {None}
        /\ \A d \in Clients : d # c /\ lock = d => lock' = d
        /\ UNCHANGED <<launch, cast, disk, served>>
    BY <1>2, <2>3 DEF ServerInv, TypeInv
  <2>7. req' = [req EXCEPT ![c] = r]
    BY <2>3
  <2> HIDE DEF r
  <2> QED
    BY ONLY ServerInv, c \in Clients, <2>2, <2>4, <2>5, <2>6, <2>7, OneThread
<1>4. CASE ~Accepts(ask, held)
  <2>1. Refuse(c, 400) /\ Release(c)
    BY <1>4 DEF ReadFile
  <2>2. (lock = c => lock' = None) /\ (lock # c => lock' = lock)
    BY <2>1 DEF Release
  <2>3. req[c].at # "idle" /\ 400 \in {400, 403}
    BY <1>1
  <2> QED
    BY ONLY ServerInv, c \in Clients, <1>2, <2>1, <2>2, <2>3, RefuseStep
<1> QED
  BY <1>3, <1>4

(* A swap that succeeds: one whole snapshot goes, another comes, and every    *)
(* thread under way has seen it.                                             *)
LEMMA SwapFacts ==
    ASSUME ServerInv, NEW c \in Clients, Swap(c), served' # served
    PROVE  LET new == Snapshot(Len(draws) + 1, req[c].data, Resolve(req[c].ask)) IN
           /\ Servable(req[c].data) /\ Window(req[c].data) = RequiredWindow(req[c].ask, served)
           /\ served' = new /\ new \in Snapshots
           /\ draws' = Append(draws, 0)
           /\ req' = [Noting(req, new) EXCEPT ![c] =
                 [at |-> "answered", ask |-> req[c].ask, since |-> req[c].since \cup {new},
                  answer |-> [status |-> 200, path |-> Resolve(req[c].ask)]]]
           /\ lock' = None
           /\ UNCHANGED <<launch, cast, disk>>
           /\ req[c] \in Swapping /\ req[c].ask \in ReloadAsk
           /\ Resolve(req[c].ask) \in Paths
           /\ Accepts(req[c].ask, req[c].data)
<1>1. req[c] \in Swapping /\ req[c].ask.to = "reload" /\ lock = c /\ req[c].snap = served
  BY ThreadFacts DEF ServerInv, TypeInv, ThreadInv, Swap
<1>2. req[c].ask \in ReloadAsk /\ req[c].data \in Contents
  BY <1>1, RequestFacts DEF Swapping
<1>3. Accepts(req[c].ask, req[c].data) /\ Resolve(req[c].ask) \in Paths
  BY <1>2, ResolveFacts DEF ServerInv, ThreadInv, Swap
<1>4. Snapshot(Len(draws) + 1, req[c].data, Resolve(req[c].ask)) \in Snapshots
  BY <1>2, <1>3 DEF Snapshot, Snapshots, ServerInv, TypeInv
<1> QED
  BY <1>1, <1>2, <1>3, <1>4 DEF Swap, Release

LEMMA SwapStep ==
    ASSUME ServerInv, NEW c \in Clients, Swap(c)
    PROVE  ServerInv'
<1>1. req[c] \in Swapping /\ req[c].at = "swap" /\ lock = c
  BY ThreadFacts DEF ServerInv, TypeInv, ThreadInv, Swap
<1>2. CASE ~(Servable(req[c].data) /\ Window(req[c].data) = RequiredWindow(req[c].ask, req[c].snap))
  <2>1. Refuse(c, 400) /\ Release(c) /\ UNCHANGED <<launch, cast, disk, served, draws>>
    BY <1>2 DEF Swap
  <2>2. (lock = c => lock' = None) /\ (lock # c => lock' = lock)
    BY <2>1 DEF Release
  <2>3. req[c].at # "idle" /\ 400 \in {400, 403}
    BY <1>1
  <2> QED
    BY ONLY ServerInv, c \in Clients, <2>1, <2>2, <2>3, RefuseStep
<1>3. CASE Servable(req[c].data) /\ Window(req[c].data) = RequiredWindow(req[c].ask, req[c].snap)
  <2> DEFINE new == Snapshot(Len(draws) + 1, req[c].data, Resolve(req[c].ask))
             r == [at |-> "answered", ask |-> req[c].ask, since |-> req[c].since \cup {new},
                   answer |-> [status |-> 200, path |-> Resolve(req[c].ask)]]
  <2>1. served' = new /\ new.object = Len(draws) + 1 /\ new.sha = new.policy
    BY <1>3 DEF Swap, Snapshot
  <2>2. served' # served
    BY <2>1 DEF ServerInv, TypeInv
  <2>3. /\ new \in Snapshots /\ draws' = Append(draws, 0) /\ lock' = None
        /\ req' = [Noting(req, new) EXCEPT ![c] = r]
        /\ UNCHANGED <<launch, cast, disk>> /\ req[c].ask \in ReloadAsk
        /\ Resolve(req[c].ask) \in Paths
    BY <2>2, SwapFacts
  <2> HIDE DEF new
  <2>4. /\ draws' \in Seq(Nat) /\ Len(draws') = Len(draws) + 1 /\ Len(draws) \in Nat
        /\ \A n : n \in 1 .. Len(draws) => n \in 1 .. Len(draws')
    BY <2>3 DEF ServerInv, TypeInv
  <2>5. r \in Done /\ r.ask.to = "reload" /\ r.at = "answered"
    BY <1>1, <2>3 DEF Swapping, Done, Answers, ReloadAsk
  <2>6. /\ DOMAIN req = Clients /\ req'[c] = r
        /\ \A d \in Clients : d # c =>
              req'[d] = IF req[d].at = "idle" THEN req[d]
                        ELSE [req[d] EXCEPT !.since = @ \cup {new}]
    BY <2>3 DEF Noting, ServerInv, TypeInv
  <2>7. \A d \in Clients : d # c /\ req[d].at # "idle" =>
            /\ req'[d] \in Threads
            /\ \A s \in req[d].since : s \in req'[d].since
            /\ new \in req'[d].since
            /\ req'[d].at = req[d].at /\ req'[d].ask = req[d].ask
            /\ req[d].at \in {"compute", "write"} => req'[d].snap = req[d].snap
            /\ req[d].at = "answered" => req'[d].answer = req[d].answer
    <3> SUFFICES ASSUME NEW d \in Clients, d # c, req[d].at # "idle"
                 PROVE  /\ req'[d] \in Threads
                        /\ \A s \in req[d].since : s \in req'[d].since
                        /\ new \in req'[d].since
                        /\ req'[d].at = req[d].at /\ req'[d].ask = req[d].ask
                        /\ req[d].at \in {"compute", "write"} => req'[d].snap = req[d].snap
                        /\ req[d].at = "answered" => req'[d].answer = req[d].answer
      OBVIOUS
    <3>1. req'[d] = [req[d] EXCEPT !.since = @ \cup {new}]
      BY <2>6
    <3>2. req[d] \in Waiting \cup Working \cup Swapping \cup Done
      BY DEF ServerInv, TypeInv, Threads, Idle
    <3>3. CASE req[d] \in Waiting
      BY <2>3, <3>1, <3>3 DEF Waiting, Threads
    <3>4. CASE req[d] \in Working
      BY <2>3, <3>1, <3>4 DEF Working, Threads
    <3>5. CASE req[d] \in Swapping
      BY <2>3, <3>1, <3>5 DEF Swapping, Threads
    <3>6. CASE req[d] \in Done
      BY <2>3, <3>1, <3>6 DEF Done, Threads
    <3> QED
      BY <3>2, <3>3, <3>4, <3>5, <3>6
  <2>8. req' \in [Clients -> Threads]
    <3>1. DOMAIN req' = Clients /\ req' = [d \in Clients |-> req'[d]]
      BY <2>3 DEF Noting, ServerInv, TypeInv
    <3>2. ASSUME NEW d \in Clients PROVE req'[d] \in Threads
      <4>1. CASE d = c
        BY <4>1, <2>5, <2>6 DEF Threads
      <4>2. CASE d # c /\ req[d].at = "idle"
        BY <4>2, <2>6 DEF ServerInv, TypeInv
      <4> QED
        BY <4>1, <4>2, <2>7
    <3> QED
      BY <3>1, <3>2
  <2>9. TypeInv'
    BY <2>1, <2>3, <2>4, <2>8 DEF ServerInv, TypeInv
  <2>10. \A d \in Clients : ThreadInv(d)'
    <3> SUFFICES ASSUME NEW d \in Clients
                 PROVE  ThreadInv(d)'
      OBVIOUS
    <3>1. CASE d = c
      BY <3>1, <2>5, <2>6 DEF ThreadInv
    <3>2. CASE d # c /\ req[d].at = "idle"
      BY <3>2, <2>6 DEF ThreadInv
    <3>3. CASE d # c /\ req[d].at # "idle"
      <4>1. req[d].at \notin {"open", "swap"}
        BY <1>1, <3>3 DEF ServerInv, ThreadInv
      <4>2. ThreadInv(d)
        BY DEF ServerInv
      <4>3. /\ \A s \in req[d].since : s \in req'[d].since
            /\ new \in req'[d].since
            /\ req'[d].at = req[d].at /\ req'[d].ask = req[d].ask
            /\ req[d].at \in {"compute", "write"} => req'[d].snap = req[d].snap
            /\ req[d].at = "answered" => req'[d].answer = req[d].answer
        BY <2>7, <3>3
      <4>4. Truthful(req[d].answer, req[d].since) => Truthful(req[d].answer, req'[d].since)
        BY <4>3 DEF Truthful
      <4>5. CASE req[d].at = "answered"
        BY ONLY <2>4, <4>2, <4>3, <4>4, <4>5 DEF ThreadInv, SameWindow
      <4>6. CASE req[d].at # "answered"
        BY ONLY <2>1, <2>4, <4>1, <4>2, <4>3, <4>6 DEF ThreadInv, Decodes, Window
      <4> QED
        BY <4>5, <4>6
    <3> QED
      BY <3>1, <3>2, <3>3
  <2> QED
    BY <2>3, <2>9, <2>10 DEF ServerInv, LockInv
<1> QED
  BY <1>2, <1>3

-----------------------------------------------------------------------------
(* A request comes, and an answer is taken away. *)
LEMMA NewThread ==
    ASSUME ServerInv, NEW c \in Clients, req[c].at = "idle", NEW ask \in Requests,
           req' = [req EXCEPT ![c] = Thread(ask)],
           UNCHANGED <<launch, cast, disk, served, draws, lock>>
    PROVE  ServerInv' /\ req'[c] = Thread(ask)
<1> DEFINE r == Thread(ask)
<1>1. /\ r \in Threads /\ r.at = "read" /\ r.since = {served}
  BY DEF Thread, Waiting, Threads, ServerInv, TypeInv
<1>2. req'[c] = r /\ req' = [req EXCEPT ![c] = r]
  BY DEF ServerInv, TypeInv
<1>3. ThreadInv(c)'
  BY <1>1, <1>2 DEF ThreadInv
<1>4. draws' \in Seq(Nat) /\ Len(draws') >= Len(draws) /\ req[c].at \notin {"open", "swap"}
  BY DEF ServerInv, TypeInv
<1>5. UNCHANGED <<launch, cast, disk, served, lock>>
  OBVIOUS
<1>6. r = Thread(ask)
  OBVIOUS
<1> HIDE DEF r
<1> QED
  BY ONLY ServerInv, c \in Clients, <1>1, <1>2, <1>3, <1>4, <1>5, <1>6, ReaderStep

LEMMA EndThread ==
    ASSUME ServerInv, NEW c \in Clients, req[c].at = "answered",
           req' = [req EXCEPT ![c] = Idle],
           UNCHANGED <<launch, cast, disk, served, draws, lock>>
    PROVE  ServerInv' /\ req'[c] = Idle
<1>1. Idle \in Threads /\ Idle.at = "idle"
  BY DEF Idle, Threads
<1>2. req'[c] = Idle
  BY DEF ServerInv, TypeInv
<1>3. ThreadInv(c)'
  BY <1>1, <1>2 DEF ThreadInv
<1>4. draws' \in Seq(Nat) /\ Len(draws') >= Len(draws) /\ req[c].at \notin {"open", "swap"}
  BY DEF ServerInv, TypeInv
<1>5. UNCHANGED <<launch, cast, disk, served, lock>> /\ req' = [req EXCEPT ![c] = Idle]
  OBVIOUS
<1> QED
  BY ONLY ServerInv, c \in Clients, <1>1, <1>2, <1>3, <1>4, <1>5, ReaderStep

(* A handler's step leaves what was asked alone, and neither starts a request *)
(* nor takes an answer away.                                                *)
SameAsks ==
    \A d \in Clients :
        /\ req'[d].at = "idle" <=> req[d].at = "idle"
        /\ req[d].at # "idle" => req'[d].ask = req[d].ask

LEMMA RefuseKeepsAsks ==
    ASSUME ServerInv, NEW c \in Clients, req[c].at # "idle", NEW answer, Answer(c, answer)
    PROVE  SameAsks
BY DEF Answer, ServerInv, TypeInv, SameAsks

LEMMA GotoKeepsAsks ==
    ASSUME ServerInv, NEW c \in Clients, req[c] \in Waiting \cup Working, NEW at,
           at # "idle", Goto(c, at)
    PROVE  SameAsks
<1>1. req[c].at # "idle"
  BY DEF Waiting, Working
<1>2. req' = [req EXCEPT ![c] = [req[c] EXCEPT !.at = at]]
  BY DEF Goto, ServerInv, TypeInv
<1>3. [req[c] EXCEPT !.at = at].at = at /\ [req[c] EXCEPT !.at = at].ask = req[c].ask
  BY DEF Waiting, Working
<1> QED
  BY <1>1, <1>2, <1>3 DEF SameAsks, ServerInv, TypeInv

LEMMA ServeStep ==
    ASSUME ServerInv, NEW c \in Clients, Serve(c)
    PROVE  ServerInv' /\ SameAsks /\ UNCHANGED <<launch, cast, review, parity>>
<1>1. CASE Enter(c)
  <2>1. req[c] \in Waiting
    BY <1>1, ThreadFacts DEF ServerInv, TypeInv, Enter
  <2>2. ASSUME Refused(req[c].ask) # 0 PROVE SameAsks
    <3>1. Answer(c, [status |-> Refused(req[c].ask)]) /\ req[c].at # "idle"
      BY <1>1, <2>2 DEF Enter, Refuse
    <3> QED
      BY <3>1, RefuseKeepsAsks
  <2>3. ASSUME Refused(req[c].ask) = 0 PROVE SameAsks
    <3>1. Goto(c, IF req[c].ask.to = "reload" THEN "lock" ELSE "capture")
      BY <1>1, <2>3 DEF Enter
    <3> QED
      BY <2>1, <3>1, GotoKeepsAsks
  <2> QED
    BY <1>1, <2>2, <2>3, EnterStep DEF Enter
<1>2. CASE Capture(c)
  <2>1. req[c] \in Waiting
    BY <1>2, ThreadFacts DEF ServerInv, TypeInv, Capture
  <2> QED
    BY <1>2, <2>1, CaptureStep DEF Capture, SameAsks, ServerInv, TypeInv, Waiting
<1>3. CASE Compute(c)
  <2>1. req[c] \in Working /\ req[c].at = "compute"
    BY <1>3, ThreadFacts DEF ServerInv, TypeInv, Compute
  <2>2. Refuse(c, 400) \/ Goto(c, "write")
    BY <1>3 DEF Compute
  <2>3. ASSUME Refuse(c, 400) PROVE SameAsks
    <3>1. Answer(c, [status |-> 400]) /\ req[c].at # "idle"
      BY <2>1, <2>3 DEF Refuse
    <3> QED
      BY <3>1, RefuseKeepsAsks
  <2>4. ASSUME Goto(c, "write") PROVE SameAsks
    BY <2>1, <2>4, GotoKeepsAsks
  <2> QED
    BY <1>3, <2>2, <2>3, <2>4, ComputeStep DEF Compute
<1>4. CASE Write(c)
  BY <1>4, WriteStep, RefuseKeepsAsks DEF Write
<1>5. CASE TakeLock(c)
  <2>1. req[c] \in Waiting
    BY <1>5, ThreadFacts DEF ServerInv, TypeInv, TakeLock
  <2> QED
    BY <1>5, <2>1, TakeLockStep DEF TakeLock, SameAsks, ServerInv, TypeInv, Waiting
<1>6. CASE ReadFile(c)
  <2>1. req[c].at # "idle"
    BY <1>6 DEF ReadFile
  <2>2. \/ Refuse(c, 400)
        \/ \E data : req' = [req EXCEPT ![c] = [at |-> "swap", ask |-> req[c].ask, snap |-> @.snap,
                                              since |-> @.since, data |-> data]]
    BY <1>6 DEF ReadFile
  <2>3. SameAsks
    BY <2>1, <2>2, RefuseKeepsAsks DEF Refuse, SameAsks, ServerInv, TypeInv
  <2> QED
    BY <1>6, <2>3, ReadFileStep DEF ReadFile
<1>7. CASE Swap(c)
  <2>1. req[c].at # "idle"
    BY <1>7 DEF Swap
  <2>2. \/ Refuse(c, 400)
        \/ \E new, answer : req' = [Noting(req, new) EXCEPT ![c] =
              [at |-> "answered", ask |-> req[c].ask, since |-> req[c].since \cup {new},
               answer |-> answer]]
    BY <1>7 DEF Swap
  <2>3. ASSUME NEW new, NEW answer,
               req' = [Noting(req, new) EXCEPT ![c] =
                  [at |-> "answered", ask |-> req[c].ask, since |-> req[c].since \cup {new},
                   answer |-> answer]]
        PROVE  SameAsks
    <3> SUFFICES ASSUME NEW d \in Clients
                 PROVE  /\ req'[d].at = "idle" <=> req[d].at = "idle"
                        /\ req[d].at # "idle" => req'[d].ask = req[d].ask
      BY DEF SameAsks
    <3>1. CASE d = c
      BY <2>1, <2>3, <3>1 DEF Noting, ServerInv, TypeInv
    <3>2. CASE d # c /\ req[d].at = "idle"
      BY <2>3, <3>2 DEF Noting, ServerInv, TypeInv
    <3>3. CASE d # c /\ req[d].at # "idle"
      <4>1. req'[d] = [req[d] EXCEPT !.since = @ \cup {new}]
        BY <2>3, <3>3 DEF Noting, ServerInv, TypeInv
      <4>2. req[d] \in Waiting \cup Working \cup Swapping \cup Done
        BY <3>3 DEF ServerInv, TypeInv, Threads, Idle
      <4> QED
        BY <3>3, <4>1, <4>2 DEF Waiting, Working, Swapping, Done
    <3> QED
      BY <3>1, <3>2, <3>3
  <2>4. SameAsks
    BY <2>1, <2>2, <2>3, RefuseKeepsAsks DEF Refuse
  <2> QED
    BY <1>7, <2>4, SwapStep DEF Swap
<1> QED
  BY <1>1, <1>2, <1>3, <1>4, <1>5, <1>6, <1>7 DEF Serve

-----------------------------------------------------------------------------
LEMMA CastFacts ==
    ASSUME ServerInv
    PROVE  /\ cast \subseteq Clients
           /\ \A c \in cast : Asks[c] \subseteq Requests \ HealthAsk
BY ClientAssumption, RequestFacts
DEF ServerInv, TypeInv, Clients, Requests, ActAsk, EvaluateAsk, WarmupAsk, ReloadAsk, HealthAsk

LEMMA InitInv ==
    Init => Inv
<1> SUFFICES ASSUME Init PROVE Inv
  OBVIOUS
<1> USE DEF Init
<1>1. /\ launch.path \in Paths /\ disk \in [Paths -> Contents]
      /\ disk[launch.path] \in Contents
  BY LaunchAssumption, PathAssumption DEF IsLaunch
<1>2. /\ served \in Snapshots /\ served.sha = served.policy /\ served.object = 1
  BY <1>1 DEF Snapshot, Snapshots
<1>3. \A c \in Clients : req[c] = Idle /\ req[c].at = "idle"
  BY DEF Idle
<1>4. TypeInv
  BY <1>1, <1>2, <1>3 DEF TypeInv, Threads
<1>5. LockInv /\ \A c \in Clients : ThreadInv(c)
  BY <1>3 DEF LockInv, ThreadInv
<1>6. ClientInv
  BY <1>3, <1>4 DEF ClientInv, TypeInv, Clients
<1>7. ReviewInv
  BY DEF ReviewInv
<1>8. ParityInv
  BY DEF ParityInv
<1> QED
  BY <1>4, <1>5, <1>6, <1>7, <1>8 DEF Inv, ServerInv

(* What a handler does changes nothing the clients know.                     *)
LEMMA ServeKeepsInv ==
    ASSUME Inv, NEW c \in cast, Serve(c)
    PROVE  Inv'
<1>1. c \in Clients /\ cast \subseteq Clients
  BY CastFacts DEF Inv
<1>2. ServerInv' /\ SameAsks /\ UNCHANGED <<launch, cast, review, parity>>
  BY <1>1, ServeStep DEF Inv
<1>3. ClientInv'
  BY <1>1, <1>2 DEF Inv, ClientInv, SameAsks
<1>4. ReviewInv' /\ ParityInv'
  BY <1>2 DEF Inv, ReviewInv, ParityInv
<1> QED
  BY <1>2, <1>3, <1>4 DEF Inv

LEMMA AskStep ==
    ASSUME Inv, NEW c \in cast, Ask(c)
    PROVE  Inv'
<1>1. c \in Clients /\ cast \subseteq Clients /\ c \notin {"reviewer", "harness"}
  BY CastFacts DEF Inv, Ask
<1>2. PICK ask \in Asks[c] : req' = [req EXCEPT ![c] = Thread(ask)]
  BY DEF Ask
<1>3. ask \in Requests \ HealthAsk
  BY <1>2, CastFacts DEF Inv
<1>4. UNCHANGED <<launch, cast, disk, served, draws, lock, review, parity>>
  BY DEF Ask, server
<1>5. ServerInv' /\ req'[c] = Thread(ask)
  BY <1>1, <1>2, <1>3, <1>4, NewThread DEF Inv, Ask
<1>6. ClientInv'
  BY <1>1, <1>2, <1>3, <1>4, <1>5 DEF Inv, ClientInv, ServerInv, TypeInv, Thread
<1>7. ReviewInv' /\ ParityInv'
  BY <1>4 DEF Inv, ReviewInv, ParityInv
<1> QED
  BY <1>5, <1>6, <1>7 DEF Inv

LEMMA SendChunkStep ==
    ASSUME Inv, SendChunk
    PROVE  Inv'
<1>1. "reviewer" \in Clients /\ "reviewer" \in cast /\ cast \subseteq Clients
  BY CastFacts DEF Inv, SendChunk
<1>2. PICK ask \in Asks["reviewer"] : req' = [req EXCEPT !["reviewer"] = Thread(ask)]
  BY DEF SendChunk
<1>3. ask \in EvaluateAsk /\ ask \in Requests
  BY <1>1, <1>2, ClientAssumption DEF Requests
<1>4. UNCHANGED <<launch, cast, disk, served, draws, lock, review, parity>>
  BY DEF SendChunk, server
<1>5. ServerInv' /\ req'["reviewer"] = Thread(ask)
  BY <1>1, <1>2, <1>3, <1>4, NewThread DEF Inv, SendChunk
<1>6. ClientInv'
  BY <1>1, <1>2, <1>3, <1>4, <1>5 DEF Inv, ClientInv, ServerInv, TypeInv, Thread
<1>7. ReviewInv' /\ ParityInv'
  BY <1>4 DEF Inv, ReviewInv, ParityInv
<1> QED
  BY <1>5, <1>6, <1>7 DEF Inv

(* A successful answer to anybody but an operator is an attestation. *)
LEMMA ReplyFacts ==
    ASSUME ServerInv, NEW c \in Clients, Answered(c), Reply(c).status = 200,
           req[c].ask.to # "reload"
    PROVE  Reply(c) \in Attestations /\ Reply(c).sha = Reply(c).by
BY DEF ServerInv, ThreadInv, Answered, Reply

(* The chunk that is added says the same as the last one, and so the same as  *)
(* all that came before.                                                     *)
LEMMA ReceiveChunkStep ==
    ASSUME Inv, ReceiveChunk
    PROVE  Inv'
<1>1. /\ "reviewer" \in Clients /\ "reviewer" \in cast /\ cast \subseteq Clients
      /\ req["reviewer"].at = "answered" /\ req["reviewer"].ask.to # "reload"
  BY CastFacts DEF Inv, ReceiveChunk, Answered, ClientInv, EvaluateAsk
<1>2. UNCHANGED <<launch, cast, disk, served, draws, lock, parity>>
      /\ req' = [req EXCEPT !["reviewer"] = Idle]
  BY DEF ReceiveChunk, server
<1>3. ServerInv' /\ req'["reviewer"] = Idle
  BY <1>1, <1>2, EndThread DEF Inv
<1>4. ClientInv'
  BY <1>1, <1>2, <1>3 DEF Inv, ClientInv, ServerInv, TypeInv, Idle
<1>5. ParityInv'
  BY <1>2 DEF Inv, ParityInv
<1>6. ReviewInv'
  <2> DEFINE reply == Reply("reviewer")
             parts == Append(review.parts, reply)
  <2>1. CASE reply.status # 200 \/ (review.parts # <<>> /\ Info(reply) # Info(Last(review.parts)))
    <3>1. review' = [at |-> "failed", parts |-> <<>>]
      BY <2>1 DEF ReceiveChunk
    <3> QED
      BY <3>1 DEF ReviewInv
  <2>2. CASE ~(reply.status # 200 \/ (review.parts # <<>> /\ Info(reply) # Info(Last(review.parts))))
    <3>1. review' = [at |-> IF Len(parts) = Chunks THEN "done" ELSE "send", parts |-> parts]
      BY <2>2 DEF ReceiveChunk
    <3>2. reply \in Attestations /\ reply.sha = reply.by
      BY <1>1, <2>2, ReplyFacts DEF Inv, Answered
    <3>3. review.parts \in Seq(Attestations) /\ Len(review.parts) \in Nat
      BY DEF Inv, ReviewInv
    <3>4. \A i \in 1 .. Len(review.parts) : review.parts[i].sha = reply.sha
      <4> SUFFICES ASSUME NEW i \in 1 .. Len(review.parts)
                   PROVE  review.parts[i].sha = reply.sha
        OBVIOUS
      <4>1. review.parts # <<>> /\ Len(review.parts) \in 1 .. Len(review.parts)
        BY <3>3
      <4>2. Info(reply) = Info(review.parts[Len(review.parts)])
        BY <2>2, <4>1 DEF Last
      <4>3. reply.sha = review.parts[Len(review.parts)].sha
        BY <4>2 DEF Info
      <4> QED
        BY <4>1, <4>3 DEF Inv, ReviewInv
    <3> HIDE DEF reply
    <3>5. /\ parts \in Seq(Attestations) /\ Len(parts) = Len(review.parts) + 1
          /\ \A i \in 1 .. Len(parts) :
                parts[i] = IF i = Len(parts) THEN reply ELSE review.parts[i]
      BY <3>2, <3>3
    <3>6. \A i \in 1 .. Len(parts) : parts[i].sha = reply.sha /\ parts[i].by = parts[i].sha
      BY <3>2, <3>3, <3>4, <3>5 DEF Inv, ReviewInv
    <3> HIDE DEF parts
    <3>7. review'.parts = parts /\ review'.at = IF Len(parts) = Chunks THEN "done" ELSE "send"
      BY <3>1
    <3>8. review' \in [at : {"send", "failed", "done"}, parts : Seq(Attestations)]
      BY <3>1, <3>5
    <3> QED
      BY <3>6, <3>7, <3>8 DEF ReviewInv
  <2> QED
    BY <2>1, <2>2
<1> QED
  BY <1>3, <1>4, <1>5, <1>6 DEF Inv

LEMMA LoadReferenceStep ==
    ASSUME Inv, LoadReference
    PROVE  Inv'
<1>1. UNCHANGED <<launch, cast, disk, served, draws, lock, req, review>>
  BY DEF LoadReference, server
<1>2. PICK path \in Paths :
          parity' = IF disk[path] \notin Contents \/ ~Model[disk[path]].loads
                    THEN [parity EXCEPT !.at = "failed"]
                    ELSE [parity EXCEPT !.at = "healthz", !.path = path, !.model = disk[path]]
  BY DEF LoadReference
<1>3. ServerInv' /\ ReviewInv'
  BY <1>1 DEF Inv, ServerInv, TypeInv, LockInv, ThreadInv, ReviewInv, Truthful, SameWindow,
              Decodes, Window, Accepts, Resolve
<1>4. ParityInv'
  <2>1. CASE parity' = [parity EXCEPT !.at = "failed"]
    BY <1>1, <2>1 DEF Inv, ParityInv
  <2>2. CASE /\ disk[path] \in Contents
             /\ parity' = [parity EXCEPT !.at = "healthz", !.path = path, !.model = disk[path]]
    <3>1. parity.checked = <<>> /\ "harness" \in cast
      BY DEF Inv, ParityInv, LoadReference
    <3>2. /\ parity'.at = "healthz" /\ parity'.path = path /\ parity'.model = disk[path]
          /\ parity'.checked = <<>>
      BY <2>2, <3>1 DEF Inv, ParityInv
    <3>3. parity' \in [at : {"load", "healthz", "act", "failed", "passed"},
                       path : Paths \cup {None}, model : Contents \cup {None},
                       checked : Seq(Attestations)]
      BY <2>2 DEF Inv, ParityInv
    <3> QED
      BY <1>1, <2>2, <3>1, <3>2, <3>3 DEF ParityInv
  <2> QED
    BY <1>2, <2>1, <2>2
<1>5. parity'.at # "act"
  BY <1>2 DEF Inv, ParityInv, LoadReference
<1>6. ClientInv'
  BY <1>1, <1>5 DEF Inv, ClientInv
<1> QED
  BY <1>3, <1>4, <1>6 DEF Inv

LEMMA HarnessIsClient ==
    ASSUME Inv, parity.at \in {"healthz", "act"}
    PROVE  "harness" \in Clients /\ "harness" \in cast /\ cast \subseteq Clients
BY CastFacts DEF Inv, ParityInv

LEMMA AskHealthStep ==
    ASSUME Inv, AskHealth
    PROVE  Inv'
<1> DEFINE ask == [to |-> "healthz"]
<1>1. "harness" \in Clients /\ "harness" \in cast /\ cast \subseteq Clients
  BY HarnessIsClient DEF AskHealth
<1>2. ask \in HealthAsk /\ ask \in Requests
  BY DEF HealthAsk, Requests
<1>3. UNCHANGED <<launch, cast, disk, served, draws, lock, review, parity>>
      /\ req' = [req EXCEPT !["harness"] = Thread(ask)] /\ parity.at = "healthz"
  BY DEF AskHealth, server
<1> HIDE DEF ask
<1>4. ServerInv' /\ req'["harness"] = Thread(ask)
  BY <1>1, <1>2, <1>3, NewThread DEF Inv, AskHealth
<1>5. ClientInv'
  BY <1>1, <1>2, <1>3, <1>4 DEF Inv, ClientInv, ServerInv, TypeInv, Thread
<1>6. ReviewInv' /\ ParityInv'
  BY <1>3 DEF Inv, ReviewInv, ParityInv
<1> QED
  BY <1>4, <1>5, <1>6 DEF Inv

LEMMA CheckIdentityStep ==
    ASSUME Inv, CheckIdentity
    PROVE  Inv'
<1>1. "harness" \in Clients /\ "harness" \in cast /\ cast \subseteq Clients
  BY HarnessIsClient DEF CheckIdentity
<1>2. UNCHANGED <<launch, cast, disk, served, draws, lock, review>>
      /\ req' = [req EXCEPT !["harness"] = Idle] /\ req["harness"].at = "answered"
  BY DEF CheckIdentity, server, Answered
<1>3. parity' = [parity EXCEPT
           !.at = IF Reply("harness").sha = disk[parity.path] THEN "act" ELSE "failed"]
  BY DEF CheckIdentity
<1>4. ServerInv' /\ req'["harness"] = Idle
  BY <1>1, <1>2, EndThread DEF Inv
<1>5. ClientInv'
  BY <1>1, <1>2, <1>4 DEF Inv, ClientInv, ServerInv, TypeInv, Idle
<1>6. ParityInv'
  BY <1>2, <1>3 DEF Inv, ParityInv, CheckIdentity
<1>7. ReviewInv'
  BY <1>2 DEF Inv, ReviewInv
<1> QED
  BY <1>4, <1>5, <1>6, <1>7 DEF Inv

(* The harness sends the window of its reference, which is a window.         *)
LEMMA SendDecisionStep ==
    ASSUME Inv, SendDecision
    PROVE  Inv'
<1>1. "harness" \in Clients /\ "harness" \in cast /\ cast \subseteq Clients
  BY HarnessIsClient DEF SendDecision
<1>2. PICK given \in Asks["harness"] :
          req' = [req EXCEPT !["harness"] =
              Thread([given EXCEPT !.obs.window = Window(parity.model), !.logits = TRUE])]
  BY DEF SendDecision
<1> DEFINE ask == [given EXCEPT !.obs.window = Window(parity.model), !.logits = TRUE]
<1>3. Window(parity.model) \in Nat
  BY ModelAssumption DEF Inv, ParityInv, SendDecision, Window
<1>4. given \in ActAsk
  BY <1>1, <1>2, ClientAssumption
<1>5. ask \in ActAsk /\ ask \in Requests
  BY <1>3, <1>4 DEF ActAsk, Observation, Requests
<1>6. UNCHANGED <<launch, cast, disk, served, draws, lock, review, parity>>
      /\ req' = [req EXCEPT !["harness"] = Thread(ask)] /\ req["harness"].at = "idle"
  BY <1>2 DEF SendDecision, server
<1> HIDE DEF ask
<1>7. ServerInv' /\ req'["harness"] = Thread(ask)
  BY <1>1, <1>5, <1>6, NewThread DEF Inv
<1>8. ClientInv'
  BY <1>1, <1>5, <1>6, <1>7 DEF Inv, ClientInv, ServerInv, TypeInv, Thread
<1>9. ReviewInv' /\ ParityInv'
  BY <1>6 DEF Inv, ReviewInv, ParityInv
<1> QED
  BY <1>7, <1>8, <1>9 DEF Inv

(* A decision that is counted was computed by a checkpoint with the logits of *)
(* the reference.                                                            *)
LEMMA CompareDecisionStep ==
    ASSUME Inv, CompareDecision
    PROVE  Inv'
<1>1. "harness" \in Clients /\ "harness" \in cast /\ cast \subseteq Clients
  BY HarnessIsClient DEF CompareDecision
<1>2. UNCHANGED <<launch, cast, disk, served, draws, lock, review>>
      /\ req' = [req EXCEPT !["harness"] = Idle] /\ req["harness"].at = "answered"
      /\ parity.at = "act"
  BY DEF CompareDecision, server, Answered
<1>3. ServerInv' /\ req'["harness"] = Idle
  BY <1>1, <1>2, EndThread DEF Inv
<1>4. ClientInv'
  BY <1>1, <1>2, <1>3 DEF Inv, ClientInv, ServerInv, TypeInv, Idle
<1>5. ReviewInv'
  BY <1>2 DEF Inv, ReviewInv
<1>6. ParityInv'
  <2> DEFINE reply == Reply("harness")
             checked == Append(parity.checked, reply)
  <2>1. \/ parity' = [parity EXCEPT !.at = "failed"]
        \/ /\ reply.status = 200 /\ Agrees(reply)
           /\ parity' = [parity EXCEPT !.checked = checked,
                                       !.at = IF Len(parity.checked) + 1 = Decisions
                                              THEN "passed" ELSE "act"]
    BY DEF CompareDecision
  <2>2. CASE parity' = [parity EXCEPT !.at = "failed"]
    BY <1>2, <2>2 DEF Inv, ParityInv
  <2>3. CASE /\ reply.status = 200 /\ Agrees(reply)
             /\ parity' = [parity EXCEPT !.checked = checked,
                                         !.at = IF Len(parity.checked) + 1 = Decisions
                                                THEN "passed" ELSE "act"]
    <3>1. reply \in Attestations
      <4>1. req["harness"].ask \in ActAsk
        BY <1>1, <1>2 DEF Inv, ClientInv
      <4>2. req["harness"].ask.to # "reload"
        BY <4>1 DEF ActAsk
      <4> QED
        BY <1>1, <1>2, <2>3, <4>2, ReplyFacts DEF Inv, Answered
    <3>2. Model[reply.by].logits = Model[parity.model].logits
      BY <2>3 DEF Agrees
    <3> HIDE DEF reply
    <3>3. parity.checked \in Seq(Attestations)
      BY DEF Inv, ParityInv
    <3>4. /\ checked \in Seq(Attestations) /\ Len(checked) = Len(parity.checked) + 1
          /\ \A i \in 1 .. Len(checked) :
                checked[i] = IF i = Len(checked) THEN reply ELSE parity.checked[i]
      BY <3>1, <3>3
    <3>5. \A i \in 1 .. Len(checked) :
              Model[checked[i].by].logits = Model[parity.model].logits
      BY <3>2, <3>3, <3>4 DEF Inv, ParityInv
    <3> HIDE DEF checked
    <3>6. /\ parity'.checked = checked /\ parity'.model = parity.model /\ parity'.path = parity.path
          /\ parity'.at = IF Len(parity.checked) + 1 = Decisions THEN "passed" ELSE "act"
      BY <2>3 DEF Inv, ParityInv
    <3>7. parity' \in [at : {"load", "healthz", "act", "failed", "passed"},
                       path : Paths \cup {None}, model : Contents \cup {None},
                       checked : Seq(Attestations)]
      BY <2>3, <3>4 DEF Inv, ParityInv
    <3> QED
      BY <1>1, <1>2, <3>4, <3>5, <3>6, <3>7 DEF Inv, ParityInv
  <2> QED
    BY <2>1, <2>2, <2>3
<1> QED
  BY <1>3, <1>4, <1>5, <1>6 DEF Inv

(* A file that is replaced changes nothing of what has been read from it.    *)
LEMMA ReplaceStep ==
    ASSUME Inv, Replace
    PROVE  Inv'
<1>1. UNCHANGED <<launch, cast, served, draws, lock, req, review, parity>>
  BY DEF Replace, server
<1>2. disk' \in [Paths -> Contents \cup {Missing, Special}]
  BY DEF Replace, Inv, ServerInv, TypeInv
<1>3. ServerInv' /\ ReviewInv' /\ ParityInv' /\ ClientInv'
  BY <1>1, <1>2
  DEF Inv, ServerInv, TypeInv, LockInv, ThreadInv, ReviewInv, ParityInv, ClientInv, Truthful,
      SameWindow, Decodes, Window, Accepts, Resolve
<1> QED
  BY <1>3 DEF Inv

LEMMA StutterStep ==
    ASSUME Inv, UNCHANGED vars
    PROVE  Inv'
BY DEF vars, Inv, ServerInv, TypeInv, LockInv, ThreadInv, ReviewInv, ParityInv, ClientInv, Truthful,
       SameWindow, Decodes, Window, Accepts, Resolve

(* Every step of a request, of a client or of an operator keeps the          *)
(* invariant of the server.                                                  *)
THEOREM InvHolds == Spec => []Inv
<1>1. Init => Inv
  BY InitInv
<1>2. Inv /\ [Next]_vars => Inv'
  <2> SUFFICES ASSUME Inv, [Next]_vars PROVE Inv'
    OBVIOUS
  <2>1. ASSUME NEW c \in cast, Serve(c) PROVE Inv'
    BY <2>1, ServeKeepsInv
  <2>2. ASSUME NEW c \in cast, Ask(c) PROVE Inv'
    BY <2>2, AskStep
  <2>3. CASE SendChunk
    BY <2>3, SendChunkStep
  <2>4. CASE ReceiveChunk
    BY <2>4, ReceiveChunkStep
  <2>5. CASE LoadReference
    BY <2>5, LoadReferenceStep
  <2>6. CASE AskHealth
    BY <2>6, AskHealthStep
  <2>7. CASE CheckIdentity
    BY <2>7, CheckIdentityStep
  <2>8. CASE SendDecision
    BY <2>8, SendDecisionStep
  <2>9. CASE CompareDecision
    BY <2>9, CompareDecisionStep
  <2>10. CASE Replace
    BY <2>10, ReplaceStep
  <2>11. CASE Quiet
    BY <2>11, StutterStep DEF Quiet
  <2>12. CASE UNCHANGED vars
    BY <2>12, StutterStep
  <2> QED
    BY <2>1, <2>2, <2>3, <2>4, <2>5, <2>6, <2>7, <2>8, <2>9, <2>10, <2>11, <2>12 DEF Next
<1> QED
  BY <1>1, <1>2, PTL DEF Spec

-----------------------------------------------------------------------------
(* The states are those the types say, and the lock belongs to a thread that  *)
(* reloads.                                                                  *)
THEOREM TypesHold == Spec => []TypeOK
<1>1. Inv => TypeOK
  BY ThreadFacts DEF Inv, ServerInv, TypeInv, LockInv, ReviewInv, ParityInv, TypeOK, Snapshots
<1> QED
  BY <1>1, InvHolds, PTL

(* Every successful answer attests the checkpoint that computed it, which     *)
(* was being served at some moment of the request and understood it.         *)
THEOREM AnswersAreAttested == Spec => []Attested
<1>1. Inv => Attested
  BY DEF Inv, ServerInv, ThreadInv, Attested, Answered, Reply
<1> QED
  BY <1>1, InvHolds, PTL

(* A review that is delivered was made by one checkpoint. *)
THEOREM OneCheckpointPerReview == Spec => []ReviewsAreWhole
<1>1. Inv => ReviewsAreWhole
  <2> SUFFICES ASSUME Inv, review.at = "done", NEW i \in 1 .. Chunks, NEW j \in 1 .. Chunks
               PROVE  review.parts[i].by = review.parts[j].by
    BY DEF ReviewsAreWhole
  <2>1. Len(review.parts) = Chunks
    BY DEF Inv, ReviewInv
  <2> QED
    BY <2>1 DEF Inv, ReviewInv
<1> QED
  BY <1>1, InvHolds, PTL

(* Checkpoints can be told apart by the logits the harness compares.         *)
LogitsIdentify == \A a, b \in Contents : Model[a].logits = Model[b].logits => a = b

(* The parity gate passes only for decisions of the checkpoint it was asked   *)
(* about, as far as logits tell checkpoints apart.                           *)
THEOREM ParityIsOfTheReference ==
    ASSUME LogitsIdentify
    PROVE  Spec => []ParityMeansSame
<1>1. Inv => ParityMeansSame
  <2> SUFFICES ASSUME Inv, parity.at = "passed", NEW i \in 1 .. Decisions
               PROVE  parity.checked[i].by = parity.model
    BY DEF ParityMeansSame
  <2>1. i \in 1 .. Len(parity.checked) /\ parity.checked \in Seq(Attestations)
    BY DEF Inv, ParityInv
  <2>2. parity.checked[i] \in Attestations
    BY <2>1
  <2>3. parity.checked[i].by \in Contents
    BY <2>2 DEF Attestations
  <2> QED
    BY <2>1, <2>3 DEF Inv, ParityInv, LogitsIdentify
<1> QED
  BY <1>1, InvHolds, PTL

(* Only a swap changes what is served, and it serves what the request that    *)
(* made it asked for, with the window of what was served before unless the    *)
(* request named another.                                                   *)
LEMMA SwapIsGuarded ==
    ASSUME ServerInv, NEW c \in cast, Swap(c), served' # served
    PROVE  LET ask == req[c].ask IN
           /\ req[c].at = "swap" /\ req'[c].at = "answered"
           /\ served'.policy = served'.sha
           /\ ask.expect # None => served'.sha = ask.expect
           /\ Window(served'.policy) =
                  IF ask.window = None THEN Window(served.policy) ELSE ask.window
           /\ Model[served'.policy].lookahead = 0
<1>1. c \in Clients
  BY CastFacts
<1> DEFINE new == Snapshot(Len(draws) + 1, req[c].data, Resolve(req[c].ask))
<1>2. /\ Servable(req[c].data) /\ Window(req[c].data) = RequiredWindow(req[c].ask, served)
      /\ served' = new
      /\ req' = [Noting(req, new) EXCEPT ![c] =
            [at |-> "answered", ask |-> req[c].ask, since |-> req[c].since \cup {new},
             answer |-> [status |-> 200, path |-> Resolve(req[c].ask)]]]
      /\ Accepts(req[c].ask, req[c].data)
  BY <1>1, SwapFacts
<1>3. served'.policy = req[c].data /\ served'.sha = req[c].data
  BY <1>2 DEF Snapshot
<1>4. req'[c].at = "answered"
  BY <1>1, <1>2 DEF Noting, ServerInv, TypeInv
<1> QED
  BY <1>2, <1>3, <1>4 DEF Swap, Servable, RequiredWindow, Accepts

(* The policy is replaced only by a checkpoint that was asked for, was read   *)
(* whole and decodes the same observations, and together with its hash.      *)
THEOREM SwapsGuarded == Spec => SwapsAreGuarded
<1>1. ASSUME Inv, [Next]_vars, served' # served
      PROVE  \E c \in cast :
                 LET ask == req[c].ask IN
                 /\ req[c].at = "swap" /\ req'[c].at = "answered"
                 /\ served'.policy = served'.sha
                 /\ ask.expect # None => served'.sha = ask.expect
                 /\ Window(served'.policy) =
                        IF ask.window = None THEN Window(served.policy) ELSE ask.window
                 /\ Model[served'.policy].lookahead = 0
  <2>1. PICK c \in cast : Swap(c)
    BY <1>1 DEF Next, vars, server, Serve, Enter, Capture, Compute, Write, TakeLock, ReadFile, Ask,
                SendChunk, ReceiveChunk, LoadReference, AskHealth, CheckIdentity, SendDecision,
                CompareDecision, Replace, Quiet
  <2> QED
    BY <1>1, <2>1, SwapIsGuarded DEF Inv
<1> QED
  BY <1>1, InvHolds, PTL DEF Spec, SwapsAreGuarded

-----------------------------------------------------------------------------
(* The decisions sampled from a policy are those of the threads that have got *)
(* past its forward pass: a step that gets none past it draws nothing.       *)
Undecided(r) ==
    \/ r.at \notin {"write", "answered"}
    \/ r.ask.to # "act"
    \/ r.at = "answered" /\ r.answer.status # 200

LEMMA UndecidedFacts ==
    ASSUME NEW c, Undecided(req[c])
    PROVE  \A n : ~Decided(c, n)
BY DEF Undecided, Decided, Answered, Reply

LEMMA DrawsNothing ==
    ASSUME Inv, WarmupIsInvisible, UNCHANGED <<launch, cast, draws>>,
           \A d \in cast, n \in DOMAIN draws : Decided(d, n)' <=> Decided(d, n)
    PROVE  WarmupIsInvisible'
<1> SUFFICES ASSUME "harness" \notin cast, NEW n \in DOMAIN draws
             PROVE  draws[n] = IF launch.sampling
                               THEN Cardinality({d \in cast : Decided(d, n)'}) ELSE 0
  BY DEF WarmupIsInvisible
<1>1. {d \in cast : Decided(d, n)'} = {d \in cast : Decided(d, n)}
  OBVIOUS
<1> QED
  BY <1>1 DEF WarmupIsInvisible

LEMMA StaysUndecided ==
    ASSUME Inv, WarmupIsInvisible, UNCHANGED <<launch, cast, draws>>, NEW c,
           \A d \in cast : d # c => req'[d] = req[d],
           Undecided(req[c]), Undecided(req'[c])
    PROVE  WarmupIsInvisible'
<1>1. \A n : ~Decided(c, n) /\ ~Decided(c, n)'
  BY UndecidedFacts DEF Undecided, Decided, Answered, Reply
<1>2. \A d \in cast : \A n : d # c => (Decided(d, n)' <=> Decided(d, n))
  BY DEF Decided, Answered, Reply
<1> QED
  BY <1>1, <1>2, DrawsNothing

LEMMA RefusedStaysUndecided ==
    ASSUME Inv, WarmupIsInvisible, UNCHANGED <<launch, cast, draws>>, NEW c \in cast,
           req[c].at \notin {"write", "answered"}, NEW status \in {400, 403}, Refuse(c, status)
    PROVE  WarmupIsInvisible'
<1>1. req'[c] = [at |-> "answered", ask |-> req[c].ask, since |-> req[c].since,
                 answer |-> [status |-> status]]
      /\ \A d \in cast : d # c => req'[d] = req[d]
  BY CastFacts DEF Refuse, Answer, Inv, ServerInv, TypeInv
<1>2. Undecided(req[c]) /\ Undecided(req'[c])
  BY <1>1 DEF Undecided
<1> QED
  BY <1>1, <1>2, StaysUndecided

LEMMA MovedStaysUndecided ==
    ASSUME Inv, WarmupIsInvisible, UNCHANGED <<launch, cast, draws>>, NEW c \in cast,
           req[c].at \notin {"write", "answered"}, NEW r, req' = [req EXCEPT ![c] = r],
           r.at \notin {"write", "answered"}
    PROVE  WarmupIsInvisible'
<1>1. req'[c] = r /\ \A d \in cast : d # c => req'[d] = req[d]
  BY CastFacts DEF Inv, ServerInv, TypeInv
<1>2. Undecided(req[c]) /\ Undecided(req'[c])
  BY <1>1 DEF Undecided
<1> QED
  BY <1>1, <1>2, StaysUndecided

(* The forward pass: what is drawn is drawn for this thread's decision.      *)
LEMMA ComputeDraws ==
    ASSUME Inv, WarmupIsInvisible, NEW c \in cast, Compute(c)
    PROVE  WarmupIsInvisible'
<1> DEFINE ask == req[c].ask
           snap == req[c].snap
<1>1. c \in Clients /\ cast \subseteq Clients /\ req[c] \in Working /\ req[c].at = "compute"
  BY CastFacts, ThreadFacts DEF Inv, ServerInv, TypeInv, Compute
<1>2. UNCHANGED <<launch, cast>>
  BY DEF Compute
<1>3. CASE Refuse(c, 400) /\ UNCHANGED draws
  <2>1. UNCHANGED <<launch, cast, draws>> /\ 400 \in {400, 403}
    BY <1>2, <1>3
  <2> QED
    BY <1>1, <1>3, <2>1, RefusedStaysUndecided
<1>4. CASE Draw(ask, snap) /\ Goto(c, "write")
  <2>1. /\ req'[c].at = "write" /\ req'[c].ask = ask /\ req'[c].snap = snap
        /\ \A d \in cast : d # c => req'[d] = req[d]
    BY <1>1, <1>4 DEF Goto, Working, Inv, ServerInv, TypeInv
  <2>2. \A d \in cast : \A n : d # c => (Decided(d, n)' <=> Decided(d, n))
    BY <2>1 DEF Decided, Answered, Reply
  <2>3. \A n : ~Decided(c, n)
    BY <1>1, UndecidedFacts DEF Undecided
  <2>4. \A n : Decided(c, n)' <=> ask.to = "act" /\ ask.obs.discards /\ snap.object = n
    BY <2>1 DEF Decided, Answered
  <2> HIDE DEF ask, snap
  <2>5. draws \in Seq(Nat) /\ snap.object \in 1 .. Len(draws) /\ IsFiniteSet(cast)
    BY <1>1, ClientAssumption DEF Inv, ServerInv, TypeInv, ThreadInv, snap
  <2>6. CASE ask.to = "act" /\ ask.obs.discards /\ launch.sampling
    <3>1. draws' = [draws EXCEPT ![snap.object] = @ + 1]
      BY <1>4, <2>6 DEF Draw, Samples
    <3> SUFFICES ASSUME "harness" \notin cast, NEW n \in DOMAIN draws
                 PROVE  draws'[n] = Cardinality({d \in cast : Decided(d, n)'})
      BY <1>2, <2>5, <2>6, <3>1 DEF WarmupIsInvisible
    <3>2. draws[n] = Cardinality({d \in cast : Decided(d, n)})
      BY <2>6 DEF WarmupIsInvisible
    <3>3. CASE n # snap.object
      <4>1. {d \in cast : Decided(d, n)'} = {d \in cast : Decided(d, n)}
        BY <2>2, <2>3, <2>4, <3>3
      <4> QED
        BY <2>5, <3>1, <3>2, <3>3, <4>1
    <3>4. CASE n = snap.object
      <4>1. {d \in cast : Decided(d, n)'} = {d \in cast : Decided(d, n)} \cup {c}
        BY <2>2, <2>3, <2>4, <2>6, <3>4
      <4>2. IsFiniteSet({d \in cast : Decided(d, n)})
        BY <2>5, FS_Subset
      <4>3. c \notin {d \in cast : Decided(d, n)}
        BY <2>3
      <4>4. Cardinality({d \in cast : Decided(d, n)} \cup {c})
              = Cardinality({d \in cast : Decided(d, n)}) + 1
        BY <4>2, <4>3, FS_AddElement
      <4> QED
        BY <2>5, <3>1, <3>2, <3>4, <4>1, <4>4
    <3> QED
      BY <3>3, <3>4
  <2>7. CASE ~(ask.to = "act" /\ ask.obs.discards /\ launch.sampling)
    <3>1. UNCHANGED draws
      BY <1>4, <2>7 DEF Draw, Samples
    <3>2. CASE launch.sampling
      <4>1. \A d \in cast : \A n : Decided(d, n)' <=> Decided(d, n)
        BY <2>2, <2>3, <2>4, <2>7, <3>2
      <4> QED
        BY <1>2, <3>1, <4>1, DrawsNothing
    <3>3. CASE ~launch.sampling
      BY <1>2, <3>1, <3>3 DEF WarmupIsInvisible
    <3> QED
      BY <3>2, <3>3
  <2> QED
    BY <2>6, <2>7
<1> QED
  BY <1>3, <1>4 DEF Compute

(* The response keeps the object that made the decision. *)
LEMMA WriteDraws ==
    ASSUME Inv, WarmupIsInvisible, NEW c \in cast, Write(c)
    PROVE  WarmupIsInvisible'
<1>1. req[c].at = "write" /\ UNCHANGED <<launch, cast, draws>>
  BY DEF Write, server
<1>2. /\ req'[c] = [at |-> "answered", ask |-> req[c].ask, since |-> req[c].since,
                    answer |-> Attest(req[c].snap)]
      /\ \A d \in cast : d # c => req'[d] = req[d]
  BY CastFacts DEF Write, Answer, Inv, ServerInv, TypeInv
<1>3. \A d \in cast : \A n : d # c => (Decided(d, n)' <=> Decided(d, n))
  BY <1>2 DEF Decided, Answered, Reply
<1>4. \A n : Decided(c, n)' <=> Decided(c, n)
  BY <1>1, <1>2 DEF Decided, Answered, Reply, Attest
<1> QED
  BY <1>1, <1>3, <1>4, DrawsNothing

(* A new policy has made no decision. *)
LEMMA SwapDraws ==
    ASSUME Inv, WarmupIsInvisible, NEW c \in cast, Swap(c)
    PROVE  WarmupIsInvisible'
<1>1. /\ c \in Clients /\ cast \subseteq Clients /\ req[c] \in Swapping /\ req[c].at = "swap"
      /\ req[c].ask.to = "reload"
  BY CastFacts, ThreadFacts DEF Inv, ServerInv, TypeInv, ThreadInv, Swap
<1>2. UNCHANGED <<launch, cast>>
  BY DEF Swap
<1>3. CASE Refuse(c, 400) /\ UNCHANGED draws
  <2>1. UNCHANGED <<launch, cast, draws>> /\ 400 \in {400, 403}
    BY <1>2, <1>3
  <2> QED
    BY <1>1, <1>3, <2>1, RefusedStaysUndecided
<1>4. CASE \E new, answer :
              /\ draws' = Append(draws, 0)
              /\ req' = [Noting(req, new) EXCEPT ![c] =
                    [at |-> "answered", ask |-> req[c].ask, since |-> req[c].since \cup {new},
                     answer |-> answer]]
  <2>1. PICK new, answer :
              /\ draws' = Append(draws, 0)
              /\ req' = [Noting(req, new) EXCEPT ![c] =
                    [at |-> "answered", ask |-> req[c].ask, since |-> req[c].since \cup {new},
                     answer |-> answer]]
    BY <1>4
  <2>2. \A n : ~Decided(c, n) /\ ~Decided(c, n)'
    <3>1. req'[c].ask.to = "reload" /\ req[c].ask.to = "reload"
      BY <1>1, <2>1 DEF Noting, Inv, ServerInv, TypeInv
    <3> QED
      BY <3>1 DEF Decided
  <2>3. \A d \in cast : \A n : d # c => (Decided(d, n)' <=> Decided(d, n))
    <3> SUFFICES ASSUME NEW d \in cast, d # c, NEW n
                 PROVE  Decided(d, n)' <=> Decided(d, n)
      OBVIOUS
    <3>1. req'[d] = IF req[d].at = "idle" THEN req[d] ELSE [req[d] EXCEPT !.since = @ \cup {new}]
      BY <1>1, <2>1 DEF Noting, Inv, ServerInv, TypeInv
    <3>2. CASE req[d] \notin Working \cup Done
      <4>1. req[d] \in {Idle} \cup Waiting \cup Swapping
        BY <1>1, <3>2 DEF Inv, ServerInv, TypeInv, Threads
      <4>2. req'[d].at = req[d].at /\ req[d].at \notin {"write", "answered"}
        BY <3>1, <4>1 DEF Idle, Waiting, Swapping
      <4> QED
        BY <4>2 DEF Decided
    <3>3. CASE req[d] \in Working
      <4>1. /\ req'[d].at = req[d].at /\ req'[d].ask = req[d].ask /\ req'[d].snap = req[d].snap
            /\ req[d].at # "answered"
        BY <3>1, <3>3 DEF Working
      <4> QED
        BY <4>1 DEF Decided, Answered
    <3>4. CASE req[d] \in Done
      <4>1. /\ req'[d].at = req[d].at /\ req'[d].ask = req[d].ask
            /\ req'[d].answer = req[d].answer /\ req[d].at = "answered"
        BY <3>1, <3>4 DEF Done
      <4> QED
        BY <4>1 DEF Decided, Answered, Reply
    <3> QED
      BY <3>2, <3>3, <3>4
  <2>4. draws \in Seq(Nat) /\ Len(draws) \in Nat
    BY DEF Inv, ServerInv, TypeInv
  <2>5. \A d \in cast : ~Decided(d, Len(draws) + 1)
    <3> SUFFICES ASSUME NEW d \in cast, Decided(d, Len(draws) + 1)
                 PROVE  FALSE
      OBVIOUS
    <3>1. ThreadInv(d)
      BY <1>1 DEF Inv, ServerInv
    <3>2. req[d].at = "write" => req[d].snap.object \in 1 .. Len(draws)
      BY <3>1 DEF ThreadInv
    <3>3. req[d].at = "answered" /\ req[d].answer.status = 200 /\ req[d].ask.to # "reload"
            => req[d].answer.object \in 1 .. Len(draws)
      BY <3>1 DEF ThreadInv
    <3> QED
      BY <2>4, <3>2, <3>3 DEF Decided, Answered, Reply
  <2> SUFFICES ASSUME "harness" \notin cast, NEW n \in DOMAIN draws'
               PROVE  draws'[n] = IF launch.sampling
                                  THEN Cardinality({d \in cast : Decided(d, n)'}) ELSE 0
    BY <1>2 DEF WarmupIsInvisible
  <2>6. {d \in cast : Decided(d, n)'} = {d \in cast : Decided(d, n)}
    BY <2>2, <2>3
  <2>7. CASE n = Len(draws) + 1
    <3>1. {d \in cast : Decided(d, n)'} = {}
      BY <2>5, <2>6, <2>7
    <3>2. draws'[n] = 0
      BY <2>1, <2>4, <2>7
    <3> QED
      BY <3>1, <3>2, FS_EmptySet
  <2>8. CASE n # Len(draws) + 1
    <3>1. n \in DOMAIN draws /\ draws'[n] = draws[n]
      BY <2>1, <2>4, <2>8
    <3> QED
      BY <2>6, <3>1 DEF WarmupIsInvisible
  <2> QED
    BY <2>7, <2>8
<1> QED
  BY <1>3, <1>4 DEF Swap

LEMMA ServeDraws ==
    ASSUME Inv, WarmupIsInvisible, NEW c \in cast, Serve(c)
    PROVE  WarmupIsInvisible'
<1>0. /\ c \in Clients /\ cast \subseteq Clients /\ req[c] \in Threads
      /\ req = [req EXCEPT ![c] = req[c]]
  BY CastFacts DEF Inv, ServerInv, TypeInv
<1>1. CASE Enter(c)
  <2>1. /\ UNCHANGED <<launch, cast, draws>> /\ req[c].at \notin {"write", "answered"}
        /\ req[c] \in Waiting /\ req[c].ask \in Requests
    BY <1>0, <1>1, ThreadFacts DEF Enter, server
  <2>2. Refused(req[c].ask) \in {0, 400, 403}
    BY <2>1, RequestFacts DEF Refused
  <2>3. ASSUME Refused(req[c].ask) # 0 PROVE WarmupIsInvisible'
    BY <1>1, <2>1, <2>2, <2>3, RefusedStaysUndecided DEF Enter
  <2>4. ASSUME Refused(req[c].ask) = 0 PROVE WarmupIsInvisible'
    <3> DEFINE r == [req[c] EXCEPT !.at = IF req[c].ask.to = "reload" THEN "lock" ELSE "capture"]
    <3>1. req' = [req EXCEPT ![c] = r] /\ r.at \notin {"write", "answered"}
      BY <1>0, <1>1, <2>1, <2>4 DEF Enter, Goto, Waiting
    <3> HIDE DEF r
    <3> QED
      BY ONLY Inv, WarmupIsInvisible, c \in cast, <2>1, <3>1, MovedStaysUndecided
  <2> QED
    BY <2>3, <2>4
<1>2. CASE Capture(c)
  <2> DEFINE r == [req[c] EXCEPT !.snap = served, !.at = "compute"]
  <2>1. UNCHANGED <<launch, cast, draws>> /\ req[c].at \notin {"write", "answered"}
    BY <1>2 DEF Capture, server
  <2>2. req' = [req EXCEPT ![c] = r] /\ r.at \notin {"write", "answered"}
    BY <1>0, <1>2, ThreadFacts DEF Capture, Waiting
  <2> HIDE DEF r
  <2> QED
    BY ONLY Inv, WarmupIsInvisible, c \in cast, <2>1, <2>2, MovedStaysUndecided
<1>3. CASE Compute(c)
  BY <1>3, ComputeDraws
<1>4. CASE Write(c)
  BY <1>4, WriteDraws
<1>5. CASE TakeLock(c)
  <2> DEFINE r == [req[c] EXCEPT !.snap = served, !.at = "open"]
  <2>1. UNCHANGED <<launch, cast, draws>> /\ req[c].at \notin {"write", "answered"}
    BY <1>5 DEF TakeLock, server
  <2>2. req' = [req EXCEPT ![c] = r] /\ r.at \notin {"write", "answered"}
    BY <1>0, <1>5, ThreadFacts DEF TakeLock, Waiting
  <2> HIDE DEF r
  <2> QED
    BY ONLY Inv, WarmupIsInvisible, c \in cast, <2>1, <2>2, MovedStaysUndecided
<1>6. CASE ReadFile(c)
  <2>1. UNCHANGED <<launch, cast, draws>> /\ req[c].at \notin {"write", "answered"}
    BY <1>6 DEF ReadFile
  <2>2. ASSUME Refuse(c, 400) PROVE WarmupIsInvisible'
    BY <2>1, <2>2, RefusedStaysUndecided
  <2>3. ASSUME NEW data,
               req' = [req EXCEPT ![c] = [at |-> "swap", ask |-> req[c].ask, snap |-> @.snap,
                                          since |-> @.since, data |-> data]]
        PROVE  WarmupIsInvisible'
    <3> DEFINE r == [at |-> "swap", ask |-> req[c].ask, snap |-> req[c].snap,
                     since |-> req[c].since, data |-> data]
    <3>1. req' = [req EXCEPT ![c] = r] /\ r.at \notin {"write", "answered"}
      BY <1>0, <2>3
    <3> HIDE DEF r
    <3> QED
      BY ONLY Inv, WarmupIsInvisible, c \in cast, <2>1, <3>1, MovedStaysUndecided
  <2> QED
    BY <1>6, <2>2, <2>3 DEF ReadFile
<1>7. CASE Swap(c)
  BY <1>7, SwapDraws
<1> QED
  BY <1>1, <1>2, <1>3, <1>4, <1>5, <1>6, <1>7 DEF Serve

(* Requests that come, and answers that are taken from the reviewer, decide   *)
(* nothing; the harness is not there.                                        *)
LEMMA ClientDraws ==
    ASSUME Inv, WarmupIsInvisible,
           (\E c \in cast : Ask(c)) \/ SendChunk \/ ReceiveChunk
    PROVE  WarmupIsInvisible'
<1>1. UNCHANGED <<launch, cast, draws>>
  BY DEF Ask, SendChunk, ReceiveChunk, server
<1>2. ASSUME NEW c \in cast, req[c].at = "idle", NEW ask, req' = [req EXCEPT ![c] = Thread(ask)]
      PROVE  WarmupIsInvisible'
  <2>1. req[c].at \notin {"write", "answered"} /\ Thread(ask).at \notin {"write", "answered"}
    BY <1>2 DEF Thread
  <2> QED
    BY <1>1, <1>2, <2>1, MovedStaysUndecided
<1>3. CASE \E c \in cast : Ask(c)
  BY <1>2, <1>3 DEF Ask
<1>4. CASE SendChunk
  BY <1>2, <1>4 DEF SendChunk
<1>5. CASE ReceiveChunk
  <2>1. "reviewer" \in cast /\ "reviewer" \in Clients /\ cast \subseteq Clients
        /\ req["reviewer"].at = "answered" /\ req' = [req EXCEPT !["reviewer"] = Idle]
    BY <1>5, CastFacts DEF ReceiveChunk, Answered, Inv
  <2>2. req["reviewer"].ask \in EvaluateAsk
    BY <2>1 DEF Inv, ClientInv
  <2>3. req'["reviewer"] = Idle /\ \A d \in cast : d # "reviewer" => req'[d] = req[d]
    BY <2>1 DEF Inv, ServerInv, TypeInv
  <2>4. Undecided(req["reviewer"]) /\ Undecided(Idle)
    BY <2>2 DEF Undecided, Idle, EvaluateAsk
  <2> QED
    BY <1>1, <2>3, <2>4, StaysUndecided
<1> QED
  BY <1>3, <1>4, <1>5

LEMMA HarnessDraws ==
    ASSUME Inv, WarmupIsInvisible,
           LoadReference \/ AskHealth \/ CheckIdentity \/ SendDecision \/ CompareDecision
    PROVE  WarmupIsInvisible'
<1>1. "harness" \in cast /\ UNCHANGED cast
  BY HarnessIsClient DEF LoadReference, AskHealth, CheckIdentity, SendDecision, CompareDecision
<1> QED
  BY <1>1 DEF WarmupIsInvisible

LEMMA NobodyDraws ==
    ASSUME Inv, WarmupIsInvisible, UNCHANGED <<launch, cast, draws, req>>
    PROVE  WarmupIsInvisible'
<1>1. \A d \in cast, n \in DOMAIN draws : Decided(d, n)' <=> Decided(d, n)
  BY DEF Decided, Answered, Reply
<1> QED
  BY <1>1, DrawsNothing

(* A policy's generator has been drawn from once for each decision sampled    *)
(* from it and for nothing else: warming up leaves no trace.                 *)
THEOREM WarmupLeavesNoTrace == Spec => []WarmupIsInvisible
<1>1. Init => WarmupIsInvisible
  <2> SUFFICES ASSUME Init, "harness" \notin cast, NEW n \in DOMAIN draws
               PROVE  draws[n] = IF launch.sampling
                                 THEN Cardinality({c \in cast : Decided(c, n)}) ELSE 0
    BY DEF WarmupIsInvisible
  <2>1. cast \subseteq Clients
    BY InitInv, CastFacts DEF Inv
  <2>2. {c \in cast : Decided(c, n)} = {}
    BY <2>1 DEF Init, Idle, Decided
  <2>3. draws[n] = 0
    BY DEF Init
  <2> QED
    BY <2>2, <2>3, FS_EmptySet
<1>2. Inv /\ WarmupIsInvisible /\ [Next]_vars => WarmupIsInvisible'
  <2> SUFFICES ASSUME Inv, WarmupIsInvisible, [Next]_vars PROVE WarmupIsInvisible'
    OBVIOUS
  <2>1. ASSUME NEW c \in cast, Serve(c) PROVE WarmupIsInvisible'
    BY <2>1, ServeDraws
  <2>2. CASE (\E c \in cast : Ask(c)) \/ SendChunk \/ ReceiveChunk
    BY <2>2, ClientDraws
  <2>3. CASE LoadReference \/ AskHealth \/ CheckIdentity \/ SendDecision \/ CompareDecision
    BY <2>3, HarnessDraws
  <2>4. CASE Replace \/ Quiet \/ UNCHANGED vars
    BY <2>4, NobodyDraws DEF Replace, Quiet, vars, server
  <2> QED
    BY <2>1, <2>2, <2>3, <2>4 DEF Next
<1> QED
  BY <1>1, <1>2, InvHolds, PTL DEF Spec

=============================================================================
