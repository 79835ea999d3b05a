------------------------------ MODULE SRStreams ------------------------------
(***************************************************************************)
(* The checkpointed stochastic-rounding streams of a training job:         *)
(* quantization/mxfp4_sr_state.py (host counters under a lock),            *)
(* quantization/localcta_sr_state.py (int64[2] device tensors that prep    *)
(* kernels advance) and cce/head_sr_state.py (one device tensor whose      *)
(* count is compared with the optimizer step).                             *)
(*                                                                         *)
(* A stream is <<kind, slot>>; every rank holds one Philox coordinate      *)
(* (seed, subsequence) per stream and draws from it in every microbatch.   *)
(* A device draw is launched by the host and executed later.  The job      *)
(* saves at step boundaries, crashes anywhere and restarts from any        *)
(* checkpoint on disk, possibly under another configuration.               *)
(***************************************************************************)
EXTENDS Integers, Sequences, FiniteSets

CONSTANTS
  WorldSize,     \* ranks of the job
  Keys,          \* [Kind -> Nat]: logical producers of each kind
  DrawsPerMicro, \* reservations each MXFP4 producer makes in a microbatch
  MaxGA,         \* largest gradient_accumulation_steps a start may configure
  Steps,         \* training.steps
  Modulus,       \* 2^64 in the code
  Stride,        \* [Kind -> Nat]: SUBSEQUENCE_STRIDE
  UserSeed,      \* [Kind -> 0..Modulus-1]: seed of the environment
  UserBase,      \* [Kind -> 0..Modulus-1]: subsequence base of the environment
  MaxLag,        \* bound: launched device draws of a stream not yet executed
  MaxStarts      \* bound: times a start gets past the load

Kind == {"mxfp4", "localcta", "head"}
Rank == 0 .. WorldSize - 1
Half == Modulus \div 2

ASSUME SRSizes ==
  /\ WorldSize \in Nat \ {0} /\ MaxGA \in Nat \ {0} /\ Steps \in Nat \ {0}
  /\ Modulus \in Nat \ {0} /\ Modulus = 2 * Half
  /\ Keys \in [Kind -> Nat \ {0}] /\ Keys["head"] = 1
  /\ Stride \in [Kind -> Nat \ {0}]
  /\ UserSeed \in [Kind -> 0 .. Modulus - 1]
  /\ UserBase \in [Kind -> 0 .. Modulus - 1]
  /\ \A k \in Kind : WorldSize * Keys[k] < Modulus
  /\ DrawsPerMicro \in [0 .. Keys["mxfp4"] - 1 -> 1 .. 3]
  /\ MaxLag \in Nat \ {0} /\ MaxStarts \in Nat

(* MAX_RESERVATIONS_PER_PRODUCER_MICROBATCH; one for the device kinds. *)
MaxReservations(k) == IF k = "mxfp4" THEN 3 ELSE 1

(* The reservation horizon the constructors demand (margin left out). *)
Span(k) == (Steps + 1) * MaxGA * MaxReservations(k) * Stride[k]
ASSUME SRHeadroom == \A k \in Kind : UserBase[k] + Span(k) <= Modulus - 1

Stream == UNION {{k} \X (0 .. Keys[k] - 1) : k \in Kind}
HeadStream == <<"head", 0>>
WoStream == <<"localcta", Keys["localcta"] - 1>>
OnDevice(st) == st[1] # "mxfp4"
Draws(st) == IF OnDevice(st) THEN 1 ELSE DrawsPerMicro[st[2]]

(* int64 storage of a uint64 value, and back. *)
AsSigned(v) == IF v < Half THEN v ELSE v - Modulus
AsUint(v) == v % Modulus

(* The seed of a rank's slot: rank-major, wrapping. *)
SeedForDeviation(base, k, r, slot) == (base + slot + 1) % Modulus
SeedFor(base, k, r, slot) == (base + r * Keys[k] + slot + 1) % Modulus

VARIABLES
  enabled,   \* the kinds this job installs
  job,       \* "up", "down", "refused" (a configuration), "corrupt" (a check raised)
  ga,        \* gradient_accumulation_steps of the running process
  step,      \* trainer.step, the last finished step
  micro,     \* microbatches each rank has begun in this step
  left,      \* draws each rank's current microbatch still makes
  seedBase,  \* _active_user_seed of each kind
  subBase,   \* subsequence base a checkpoint carries
  origin,    \* phase_origin_step of the head
  next,      \* next subsequence of each rank's streams
  launched,  \* device draws launched and not yet executed
  capture,   \* what a CUDA-graph capture must put back: <<>> or <<counter>>
  graphed,   \* the rank's wo graph exists
  disk,      \* the checkpoints
  starts,    \* processes that got past the load
  drawn,     \* every coordinate drawn in this phase, by invocation
  pos,       \* invocations the surviving run has issued
  phase      \* declared stochastic phases begun so far

streams == <<seedBase, subBase, origin, next>>
ghosts == <<drawn, pos, phase>>
device == <<launched, capture, graphed>>
loop == <<step, micro, left>>
launch == <<enabled, ga, starts>>
vars == <<launch, job, loop, streams, device, disk, ghosts>>

Streams == {st \in Stream : st[1] \in enabled}
PerStream(v) == [r \in Rank |-> [st \in Streams |-> v]]
Idle(r) == \A st \in Streams : left[r][st] = 0

(* A start's configuration: the seed of the environment (shifted by seed),  *)
(* gradient accumulation, world size, and the two operator opt-ins.        *)
Config == [seed : {0, 1}, ga : 1 .. MaxGA, world : {WorldSize, WorldSize + 1},
           migrate : BOOLEAN, policy : BOOLEAN]
ConfiguredSeed(cfg, k) == (UserSeed[k] + cfg.seed) % Modulus

(* Checkpoints older than the streams: step 1 of a run whose localCTA      *)
(* counters were saved as one rank-correlated v1 table, or not at all.     *)
LegacyTable ==
  [r \in Rank |-> [st \in Streams |->
     <<AsSigned((UserSeed[st[1]] + st[2] + 1) % Modulus),
       AsSigned(UserBase[st[1]] + MaxGA * Stride[st[1]])>>]]
LegacyDrawn(schema) ==
  [r \in Rank |-> [st \in Streams |->
     IF schema = "v1" /\ st[1] = "localcta" /\ r = 0
     THEN [n \in 1 .. MaxGA |-> <<(UserSeed[st[1]] + st[2] + 1) % Modulus,
                                  UserBase[st[1]] + (n - 1) * Stride[st[1]]>>]
     ELSE <<>>]]
Legacy(schema) ==
  [step |-> 1, schema |-> [k \in enabled |-> IF k = "localcta" THEN schema ELSE "missing"],
   seed |-> UserSeed, base |-> UserBase, origin |-> 0, ga |-> MaxGA,
   table |-> LegacyTable, drawn |-> LegacyDrawn(schema),
   pos |-> [r \in Rank |-> [st \in Streams |-> Len(LegacyDrawn(schema)[r][st])]],
   phase |-> [k \in enabled |-> 0]]

Init ==
  /\ enabled \in {{"mxfp4"}, {"localcta", "head"}}
  /\ disk \in {{}} \cup {{Legacy(schema)} : schema \in {"missing", "v1"}}
  /\ job = "down" /\ starts = 0
  /\ ga = MaxGA
  /\ step = 0 /\ micro = [r \in Rank |-> 0] /\ left = PerStream(0)
  /\ seedBase = [k \in enabled |-> UserSeed[k]]
  /\ subBase = [k \in enabled |-> UserBase[k]]
  /\ origin = 0
  /\ next = [r \in Rank |-> [st \in Streams |-> UserBase[st[1]]]]
  /\ launched = PerStream(0)
  /\ capture = [r \in Rank |-> <<>>] /\ graphed = [r \in Rank |-> FALSE]
  /\ drawn = PerStream(<<>>) /\ pos = PerStream(0) /\ phase = [k \in enabled |-> 0]

(***************************************************************************)
(* Training: each rank runs its microbatches at its own pace; the head     *)
(* draws in the forward, the others in any order of the backward.          *)
(***************************************************************************)
BeginMicrobatch(r) ==
  /\ job = "up" /\ step < Steps
  /\ micro[r] < ga /\ Idle(r)
  /\ micro' = [micro EXCEPT ![r] = @ + 1]
  /\ left' = [left EXCEPT ![r] = [st \in Streams |-> Draws(st)]]
  /\ UNCHANGED <<launch, job, step, streams, device, disk, ghosts>>

MayDraw(r, st) ==
  /\ job = "up" /\ capture[r] = <<>>
  /\ WoStream \in Streams => graphed[r]
  /\ left[r][st] > 0
  /\ HeadStream \in Streams \ {st} => left[r][HeadStream] = 0

(* The coordinate at hand goes to the producer as its n-th invocation.     *)
Record(r, st, n) ==
  drawn' = [drawn EXCEPT ![r][st] =
    SubSeq(@, 1, n - 1) \o <<<<SeedFor(seedBase[st[1]], st[1], r, st[2]), next[r][st]>>>>
      \o SubSeq(@, n + 1, Len(@))]

(* MXFP4SRState.reserve: under the lock, or OverflowError.                 *)
Reserve(r, st) ==
  /\ MayDraw(r, st) /\ ~ OnDevice(st)
  /\ left' = [left EXCEPT ![r][st] = @ - 1]
  /\ IF next[r][st] + Stride[st[1]] > Modulus - 1
     THEN job' = "corrupt" /\ UNCHANGED <<next, ghosts>>
     ELSE /\ next' = [next EXCEPT ![r][st] = @ + Stride[st[1]]]
          /\ Record(r, st, pos[r][st] + 1)
          /\ pos' = [pos EXCEPT ![r][st] = @ + 1]
          /\ UNCHANGED <<job, phase>>
  /\ UNCHANGED <<launch, step, micro, seedBase, subBase, origin, device, disk>>

(* A prep kernel that takes a device state tensor is launched ...          *)
LaunchDraw(r, st) ==
  /\ MayDraw(r, st) /\ OnDevice(st)
  /\ launched[r][st] < MaxLag
  /\ left' = [left EXCEPT ![r][st] = @ - 1]
  /\ launched' = [launched EXCEPT ![r][st] = @ + 1]
  /\ pos' = [pos EXCEPT ![r][st] = @ + 1]
  /\ UNCHANGED <<launch, job, step, micro, streams, capture, graphed, disk, drawn, phase>>

(* ... and later reserves the coordinate on its stream; uint64 wraps.      *)
ExecuteDraw(r, st) ==
  /\ job = "up" /\ launched[r][st] > 0
  /\ launched' = [launched EXCEPT ![r][st] = @ - 1]
  /\ next' = [next EXCEPT ![r][st] = (@ + Stride[st[1]]) % Modulus]
  /\ Record(r, st, pos[r][st] - launched[r][st] + 1)
  /\ UNCHANGED <<launch, job, loop, seedBase, subBase, origin, capture, graphed, disk, pos, phase>>

(* torch.cuda.synchronize: the host waits until nothing is in flight.      *)
Synchronized(r) == \A st \in Streams : launched[r][st] = 0

(* make_graphed_callables of the wo layer: three synthetic backward passes *)
(* advance the counter, and leaving the context puts it back.              *)
BeginCapture(r) ==
  /\ job = "up" /\ "localcta" \in enabled /\ ~ graphed[r]
  /\ left[r] = [st \in Streams |-> Draws(st)]
  /\ capture[r] = <<>> /\ Synchronized(r)
  /\ capture' = [capture EXCEPT ![r] = <<next[r][WoStream]>>]
  /\ next' = [next EXCEPT ![r][WoStream] = (@ + 3 * Stride["localcta"]) % Modulus]
  /\ UNCHANGED <<launch, job, loop, seedBase, subBase, origin, launched, graphed, disk, ghosts>>

EndCaptureDeviation(r) ==
  /\ job = "up" /\ capture[r] # <<>>
  /\ capture' = [capture EXCEPT ![r] = <<>>]
  /\ graphed' = [graphed EXCEPT ![r] = TRUE]
  /\ UNCHANGED <<launch, job, loop, streams, launched, disk, ghosts>>

EndCapture(r) ==
  /\ job = "up" /\ capture[r] # <<>>
  /\ next' = [next EXCEPT ![r][WoStream] = capture[r][1]]
  /\ capture' = [capture EXCEPT ![r] = <<>>]
  /\ graphed' = [graphed EXCEPT ![r] = TRUE]
  /\ UNCHANGED <<launch, job, loop, seedBase, subBase, origin, launched, disk, ghosts>>

(* The optimizer step needs every rank's last microbatch.                  *)
EndStep ==
  /\ job = "up" /\ step < Steps
  /\ \A r \in Rank : micro[r] = ga /\ Idle(r)
  /\ step' = step + 1
  /\ micro' = [r \in Rank |-> 0]
  /\ UNCHANGED <<launch, job, left, streams, device, disk, ghosts>>

(***************************************************************************)
(* Saving: every rank's table is gathered, so that the one copy the        *)
(* checkpoint keeps holds all rows.                                        *)
(***************************************************************************)
LocalStateMatrix(r) ==
  [st \in Streams |-> <<AsSigned(SeedFor(seedBase[st[1]], st[1], r, st[2])),
                        AsSigned(next[r][st])>>]
GatherRankStatesDeviation == [r \in Rank |-> LocalStateMatrix(0)]
GatherRankStates == [r \in Rank |-> LocalStateMatrix(r)]

(* OutputHeadSRState._expected_next_subsequence; validate_progress raises  *)
(* when a rank's counter is anything else, or the expected one overflows.  *)
ExpectedNext(base, from, at, accumulation) == base + (at - from) * accumulation * Stride["head"]
ProgressWrong(base, from, at, accumulation, counter) ==
  LET expected == ExpectedNext(base, from, at, accumulation)
  IN expected > Modulus - 1 \/ \E r \in Rank : counter[r] # AsSigned(expected)

Save ==
  /\ job = "up" /\ step > 0
  /\ \A r \in Rank : micro[r] = 0 /\ Synchronized(r)
  /\ LET saved == GatherRankStates IN
     IF "head" \in enabled /\ ProgressWrong(subBase["head"], origin, step, ga,
                      [r \in Rank |-> saved[r][HeadStream][2]])
     THEN job' = "corrupt" /\ UNCHANGED disk
     ELSE /\ disk' = {c \in disk : c.step # step} \cup
               {[step |-> step, schema |-> [k \in enabled |-> "current"],
                 seed |-> seedBase, base |-> subBase, origin |-> origin,
                 ga |-> ga, table |-> saved, drawn |-> drawn, pos |-> pos,
                 phase |-> phase]}
          /\ UNCHANGED job
  /\ UNCHANGED <<launch, loop, streams, device, ghosts>>

(* What the process held is gone; the coordinates it drew were used.       *)
Crash ==
  /\ job = "up"
  /\ job' = "down"
  /\ micro' = [r \in Rank |-> 0] /\ left' = PerStream(0)
  /\ launched' = PerStream(0)
  /\ capture' = [r \in Rank |-> <<>>] /\ graphed' = [r \in Rank |-> FALSE]
  /\ next' = [r \in Rank |-> [st \in Streams |-> UserBase[st[1]]]]
  /\ pos' = PerStream(0) /\ step' = 0
  /\ UNCHANGED <<launch, seedBase, subBase, origin, disk, drawn, phase>>

(***************************************************************************)
(* Starting.  The constructors set the configured coordinates; loading a   *)
(* checkpoint refuses it, restores it, migrates it or opens a new phase.   *)
(***************************************************************************)
NewProcess(cfg) ==
  /\ job \in {"down", "refused"} /\ starts < MaxStarts
  /\ ga' = cfg.ga /\ starts' = starts + 1
  /\ UNCHANGED <<enabled, micro, left, device, disk>>

StartFresh ==
  \E cfg \in Config :
    /\ disk = {} /\ cfg.world = WorldSize /\ cfg.seed = 0 /\ cfg.ga = MaxGA
    /\ NewProcess(cfg)
    /\ job' = "up" /\ step' = 0 /\ origin' = 0
    /\ seedBase' = [k \in enabled |-> ConfiguredSeed(cfg, k)]
    /\ subBase' = [k \in enabled |-> UserBase[k]]
    /\ next' = [r \in Rank |-> [st \in Streams |-> UserBase[st[1]]]]
    /\ drawn' = PerStream(<<>>) /\ pos' = PerStream(0)
    /\ phase' = [k \in enabled |-> starts + 1]

(* What each dcp_load wrapper and load_state_dict refuse for the           *)
(* configuration's sake.                                                   *)
RefusesLocalCTA(c, cfg) ==
  \/ c.schema["localcta"] = "v1" /\ ~ cfg.migrate
  \/ c.schema["localcta"] = "current" /\ cfg.world # WorldSize
RefusesMXFP4(c, cfg) == c.schema["mxfp4"] # "current" \/ cfg.world # WorldSize
RefusesHead(c, cfg) ==
  \/ c.schema["head"] = "missing" /\ ~ cfg.policy
  \/ c.schema["head"] = "current" /\ (cfg.world # WorldSize \/ cfg.ga # c.ga)
Refuses(c, cfg) ==
  \/ "localcta" \in enabled /\ RefusesLocalCTA(c, cfg)
  \/ "mxfp4" \in enabled /\ RefusesMXFP4(c, cfg)
  \/ "head" \in enabled /\ RefusesHead(c, cfg)

RefuseResume ==
  \E c \in disk, cfg \in Config :
    /\ job = "down" /\ Refuses(c, cfg)
    /\ job' = "refused"
    /\ UNCHANGED <<launch, loop, streams, device, disk, ghosts>>

(* The seed base: stored; of the v1 table's first slot; or configured.     *)
LoadedSeed(c, cfg, k) ==
  CASE c.schema[k] = "current" -> c.seed[k]
    [] c.schema[k] = "v1" -> (AsUint(c.table[0][<<k, 0>>][1]) - 1) % Modulus
    [] c.schema[k] = "missing" -> ConfiguredSeed(cfg, k)
LoadedBase(c, k) == IF c.schema[k] = "current" THEN c.base[k] ELSE UserBase[k]
LoadedOrigin(c) ==
  IF "head" \notin enabled THEN 0 ELSE IF c.schema["head"] = "current" THEN c.origin ELSE c.step
LoadedNext(c, r, st) ==
  IF c.schema[st[1]] = "missing" THEN UserBase[st[1]] ELSE AsUint(c.table[r][st][2])

(* The consistency checks of load_state_dict on the table, and the head's  *)
(* validate_progress against the restored trainer.step.                    *)
SeedsWrong(c, cfg) ==
  \E k \in enabled, r \in Rank : c.schema[k] = "current" /\
    \E s \in 0 .. Keys[k] - 1 :
      c.table[r][<<k, s>>][1] # AsSigned(SeedFor(LoadedSeed(c, cfg, k), k, r, s))
CountersWrong(c) ==
  "mxfp4" \in enabled /\
    \E r \in Rank, s \in 0 .. Keys["mxfp4"] - 1 :
      LET at == LoadedNext(c, r, <<"mxfp4", s>>)
      IN at < c.base["mxfp4"] \/ (at - c.base["mxfp4"]) % Stride["mxfp4"] # 0
LoadedProgressWrong(c, cfg) ==
  /\ "head" \in enabled /\ c.schema["head"] = "current"
  /\ ProgressWrong(c.base["head"], c.origin, c.step, cfg.ga,
                   [r \in Rank |-> AsSigned(LoadedNext(c, r, HeadStream))])

Resume ==
  \E c \in disk, cfg \in Config :
    /\ ~ Refuses(c, cfg) /\ cfg.world = WorldSize /\ NewProcess(cfg)
    /\ job' = IF SeedsWrong(c, cfg) \/ CountersWrong(c) \/ LoadedProgressWrong(c, cfg)
              THEN "corrupt" ELSE "up"
    /\ step' = c.step
    /\ seedBase' = [k \in enabled |-> LoadedSeed(c, cfg, k)]
    /\ subBase' = [k \in enabled |-> LoadedBase(c, k)]
    /\ origin' = LoadedOrigin(c)
    /\ next' = [r \in Rank |-> [st \in Streams |-> LoadedNext(c, r, st)]]
    /\ phase' = [k \in enabled |-> IF c.schema[k] = "current" THEN c.phase[k] ELSE starts + 1]
    /\ pos' = c.pos
    /\ drawn' = [r \in Rank |-> [st \in Streams |->
         IF /\ c.schema[st[1]] = "current" /\ c.phase[st[1]] = phase[st[1]]
            /\ Len(drawn[r][st]) >= Len(c.drawn[r][st])
         THEN drawn[r][st] ELSE c.drawn[r][st]]]

Next ==
  \/ \E r \in Rank : BeginMicrobatch(r) \/ BeginCapture(r) \/ EndCapture(r)
  \/ \E r \in Rank, st \in Streams : Reserve(r, st) \/ LaunchDraw(r, st) \/ ExecuteDraw(r, st)
  \/ EndStep \/ Save \/ Crash
  \/ StartFresh \/ RefuseResume \/ Resume

Spec == Init /\ [][Next]_vars
-----------------------------------------------------------------------------
Counter == 0 .. Modulus - 1

TypeOK ==
  /\ job \in {"up", "down", "refused", "corrupt"}
  /\ ga \in 1 .. MaxGA /\ step \in 0 .. Steps /\ starts \in 0 .. MaxStarts
  /\ micro \in [Rank -> 0 .. MaxGA] /\ left \in [Rank -> [Streams -> 0 .. 3]]
  /\ seedBase \in [enabled -> Counter] /\ subBase \in [enabled -> Counter]
  /\ next \in [Rank -> [Streams -> Counter]]
  /\ launched \in [Rank -> [Streams -> 0 .. MaxLag]]
  /\ graphed \in [Rank -> BOOLEAN]

(* No two invocations of a job - of two ranks, of two producers, or of one *)
(* producer before and after a restart - round with the same Philox        *)
(* coordinate (_seed_for, reserve, load_state_dict).                       *)
Invocations(k) ==
  {i \in Rank \X Streams \X (1 .. Modulus) :
     i[2][1] = k /\ i[3] <= Len(drawn[i[1]][i[2]])}
CoordinatesDistinct ==
  \A k \in enabled :
    Cardinality({drawn[i[1]][i[2]][i[3]] : i \in Invocations(k)})
      = Cardinality(Invocations(k))

(* A resumed run repeats the rounding of the run it continues: an          *)
(* invocation made again after a restart gets the coordinate it had,       *)
(* whatever the ranks' and kernels' order, unless a declared new phase or  *)
(* migration lies in between.                                              *)
ReplaysExactly ==
  [][\A r \in Rank, st \in Streams :
       phase'[st[1]] = phase[st[1]] =>
         /\ Len(drawn'[r][st]) >= Len(drawn[r][st])
         /\ SubSeq(drawn'[r][st], 1, Len(drawn[r][st])) = drawn[r][st]]_vars

(* No consistency check raises in a job that only saved, crashed, resumed, *)
(* migrated and opened phases as the code allows: no counter overflows,    *)
(* every checkpoint it wrote is accepted again, and the head's count is    *)
(* the one its step, origin and accumulation imply.                        *)
NeverCorrupt == TypeOK /\ job # "corrupt"
=============================================================================
