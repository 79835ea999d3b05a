-------------------------- MODULE WeightCachesProofs --------------------------
(***************************************************************************)
(* No cached copy outlives its optimizer step, for any number of layers,   *)
(* microbatches, steps and addresses.                                      *)
(*                                                                         *)
(* The columnwise cache: all forwards of a microbatch come before its      *)
(* backwards, so the addresses its layers saved differ (Saved), and in the *)
(* first microbatch none of them is in the cache (Cols), which the hook    *)
(* has left empty.  The head's: its key carries the step.                  *)
(***************************************************************************)
EXTENDS WeightCaches, TLAPS

(* Layers whose forward has run and whose backward has not. *)
Pending ==
  {l \in Layer : /\ converter = "fp4"
                 /\ \/ at[1] = "forward" /\ l < at[2]
                    \/ at[1] = "head"
                    \/ at[1] = "backward" /\ l <= at[2]}

Timing ==
  /\ at[1] \in {"idle", "forward", "head", "backward", "optimizer"}
  /\ at[1] \in {"forward", "backward"} => at[2] \in Layer
  /\ step \in 0 .. Steps /\ micro \in 0 .. GA
  /\ at[1] = "idle" => trace = 0 /\ version = step
  /\ at[1] # "idle" =>
       step \in 1 .. Steps /\ trace = step /\ version = step - 1 /\ micro \in 1 .. GA
  /\ counter \in 0 .. version

(* What is saved is the layer's own, as it is now, each at an address of   *)
(* its own.                                                                *)
Saved ==
  /\ DOMAIN ctx = Pending
  /\ \A l \in DOMAIN ctx : ctx[l] \in Ids \X Weights /\ ctx[l][2] = <<l, version>>
  /\ \A l, k \in DOMAIN ctx : ctx[l][1] = ctx[k][1] => l = k

Cols ==
  /\ DOMAIN colCache \subseteq Ids
  /\ \A i \in DOMAIN colCache : colCache[i] \in Weights /\ colCache[i][2] = version
  /\ converter # "fp4" \/ at[1] = "idle" => DOMAIN colCache = {}
  /\ micro = 1 /\ at[1] \in {"forward", "head"} => DOMAIN colCache = {}
  /\ micro = 1 => \A l \in DOMAIN ctx : ctx[l][1] \notin DOMAIN colCache

HeadCache ==
  headKey # <<>> => /\ headKey[1] \in 1 .. step
                    /\ trace # 0 /\ headKey[1] = step => headCopy = version

Reads ==
  /\ dgrad # <<>> => dgrad[1][2] = dgrad[2][2] /\ (dgrad[3] = 1 => dgrad[1] = dgrad[2])
  /\ head # <<>> => head[1] = head[2]

IInv == Timing /\ Saved /\ Cols /\ HeadCache /\ Reads

(* The assumption on the constants that the steps below use. *)
LEMMA Sizes == Layers \in Nat \ {0} /\ GA \in Nat \ {0} /\ Steps \in Nat \ {0}
BY CacheSizes

(* Nothing is cached at first. *)
LEMMA InitIInv == Init => IInv
<1> SUFFICES ASSUME Init PROVE IInv
  OBVIOUS
<1>1. Timing
  BY Sizes DEF Init, Timing, Nothing
<1>2. Saved
  BY DEF Init, Saved, Pending
<1>3. Cols
  BY DEF Init, Cols
<1>4. HeadCache /\ Reads
  BY DEF Init, HeadCache, Reads
<1> QED
  BY <1>1, <1>2, <1>3, <1>4 DEF IInv

(* A new step has a new key for the head's copy. *)
LEMMA BeginStepKeeps == IInv /\ BeginStep => IInv'
<1> SUFFICES ASSUME IInv, BeginStep PROVE IInv'
  OBVIOUS
<1> USE Sizes DEF IInv
<1>1. at[1] = "idle" /\ at'[1] = "forward" /\ at'[2] = 1
  BY DEF BeginStep
<1>2. Timing'
  BY <1>1 DEF BeginStep, Timing, model, Layer
<1>3. Pending = {} /\ Pending' = {}
  BY <1>1 DEF Pending, Layer, BeginStep, run
<1>4. Saved'
  BY <1>3 DEF Saved, BeginStep, model
<1>5. Cols'
  BY <1>1, <1>3 DEF Cols, Saved, BeginStep, caches, model, run
<1>6. HeadCache'
  BY DEF HeadCache, Timing, BeginStep, caches, model
<1>7. Reads'
  BY DEF Reads, BeginStep
<1> QED
  BY <1>2, <1>4, <1>5, <1>6, <1>7

(* The head takes its copy from the cache only in the step that made it. *)
LEMMA HeadForwardKeeps == IInv /\ HeadForward => IInv'
<1> SUFFICES ASSUME IInv, HeadForward PROVE IInv'
  OBVIOUS
<1> USE Sizes DEF IInv
<1>1. at[1] = "head" /\ at'[1] = "backward" /\ at'[2] = Layers
  BY DEF HeadForward
<1>2. Timing'
  BY <1>1 DEF HeadForward, Timing, model, Layer
<1>3. Pending' = Pending
  BY <1>1 DEF Pending, Layer, HeadForward, run
<1>4. Saved'
  BY <1>3 DEF Saved, HeadForward, model
<1>5. Cols'
  BY <1>1 DEF Cols, HeadForward, model, run
<1>6. headKey'[1] = step /\ headCopy' = version /\ head' = <<version, version>>
  BY <1>1 DEF HeadForward, HeadKey, HeadCache, Timing
<1>7. HeadCache'
  BY <1>1, <1>6 DEF HeadCache, Timing, HeadForward, model
<1>8. Reads'
  BY <1>6 DEF Reads, HeadForward
<1> QED
  BY <1>2, <1>4, <1>5, <1>7, <1>8

(* The hook leaves the columnwise cache empty. *)
LEMMA OptimizerStepKeeps == IInv /\ OptimizerStep => IInv'
<1> SUFFICES ASSUME IInv, OptimizerStep PROVE IInv'
  OBVIOUS
<1> USE Sizes DEF IInv
<1>1. at[1] = "optimizer" /\ at'[1] = "idle"
  BY DEF OptimizerStep
<1>2. Timing'
  BY <1>1 DEF OptimizerStep, Timing, Nothing
<1>3. Pending = {} /\ Pending' = {}
  BY <1>1 DEF Pending
<1>4. Saved'
  BY <1>3 DEF Saved, OptimizerStep
<1>5. DOMAIN colCache' = {}
  BY DEF Cols, OptimizerStep, EmptyCaches, caches
<1>6. Cols'
  BY <1>1, <1>5 DEF Cols
<1>7. HeadCache'
  BY <1>2 DEF HeadCache, OptimizerStep, EmptyCaches, caches, Nothing
<1>8. Reads'
  BY DEF Reads, OptimizerStep
<1> QED
  BY <1>2, <1>4, <1>6, <1>7, <1>8

(* The new tensor's address is that of no living object, so of no layer    *)
(* that is pending.                                                        *)
LEMMA ForwardKeeps == IInv /\ Forward => IInv'
<1> SUFFICES ASSUME IInv, Forward PROVE IInv'
  OBVIOUS
<1> USE Sizes DEF IInv
<1>1. PICK l \in Layer, i \in Ids \ Alive :
        /\ at = <<"forward", l>>
        /\ ctx' = IF converter = "fp4" THEN Put(ctx, l, <<i, <<l, version>>>>) ELSE ctx
        /\ at' = IF l = Layers THEN <<"head">> ELSE <<"forward", l + 1>>
        /\ UNCHANGED <<run, step, micro, trace, model, caches, dgrad, head>>
  BY DEF Forward
<1>2. /\ at[1] = "forward" /\ at[2] = l
      /\ l = Layers => at'[1] = "head"
      /\ l # Layers => at'[1] = "forward" /\ at'[2] = l + 1
  BY <1>1
<1>3. Timing'
  BY <1>1, <1>2 DEF Timing, model, Layer
<1>4. CASE converter # "fp4"
  <2>1. Pending = {} /\ Pending' = {} /\ ctx' = ctx
    BY <1>1, <1>4 DEF Pending, run
  <2>2. Saved'
    BY <2>1, <1>1 DEF Saved, model
  <2>3. Cols'
    BY <2>1, <1>1, <1>2 DEF Cols, model, run, caches
  <2> QED
    BY <1>1, <1>3, <2>2, <2>3 DEF HeadCache, Reads, caches, model
<1>5. CASE converter = "fp4"
  <2>1. Pending' = Pending \cup {l} /\ l \notin Pending
    BY <1>1, <1>2, <1>5 DEF Pending, run, Layer
  <2>2. /\ DOMAIN ctx' = DOMAIN ctx \cup {l}
        /\ ctx'[l] = <<i, <<l, version>>>>
        /\ \A k \in DOMAIN ctx : k # l => ctx'[k] = ctx[k]
    BY <1>1, <1>5 DEF Put
  <2>3. \A k \in DOMAIN ctx : ctx[k][1] # i
    BY <1>1 DEF Alive
  <2>4. <<l, version>> \in Weights /\ version' = version
    BY <1>1, <1>2 DEF Weights, Timing, model
  <2>5. l \notin DOMAIN ctx /\ DOMAIN ctx' = Pending'
    BY <2>1, <2>2 DEF Saved
  <2>6. \A k \in DOMAIN ctx' : ctx'[k] \in Ids \X Weights /\ ctx'[k][2] = <<k, version>>
    BY <1>1, <2>2, <2>4, <2>5 DEF Saved
  <2>7. \A k, n \in DOMAIN ctx' : ctx'[k][1] = ctx'[n][1] => k = n
    BY <2>2, <2>3, <2>5 DEF Saved
  <2>8. Saved'
    BY <2>4, <2>5, <2>6, <2>7 DEF Saved
  <2>9. micro = 1 => DOMAIN colCache = {}
    BY <1>2 DEF Cols
  <2>10. Cols'
    BY <1>1, <1>2, <1>5, <2>9 DEF Cols, model, run, caches
  <2> QED
    BY <1>1, <1>3, <2>8, <2>10 DEF HeadCache, Reads, caches, model
<1> QED
  BY <1>4, <1>5

(* Where a backward goes next. *)
LEMMA BackwardMoves ==
  ASSUME IInv, NEW l \in Layer, at = <<"backward", l>>,
         IF l > 1 THEN at' = <<"backward", l - 1>> /\ UNCHANGED micro
         ELSE IF micro < GA THEN at' = <<"forward", 1>> /\ micro' = micro + 1
         ELSE at' = <<"optimizer">> /\ UNCHANGED micro,
         UNCHANGED <<run, step, trace, model, headKey, headCopy, head>>
  PROVE  /\ Timing' /\ version' = version /\ at[1] = "backward"
         /\ Pending' = Pending \ {l}
         /\ micro' = 1 => micro = 1 /\ at'[1] \in {"backward", "optimizer"}
         /\ at'[1] # "idle"
<1> USE Sizes DEF IInv
<1>1. at[1] = "backward" /\ at[2] = l /\ micro \in 1 .. GA
  BY DEF Timing
<1>2. \/ l > 1 /\ at'[1] = "backward" /\ at'[2] = l - 1 /\ micro' = micro
      \/ l = 1 /\ at'[1] = "forward" /\ at'[2] = 1 /\ micro' = micro + 1 /\ micro < GA
      \/ l = 1 /\ at'[1] = "optimizer" /\ micro' = micro
  BY <1>1 DEF Layer
<1>3. Timing'
  BY <1>1, <1>2 DEF Timing, model, Layer
<1>4. Pending' = Pending \ {l}
  BY <1>1, <1>2 DEF Pending, Layer, run
<1> QED
  BY <1>1, <1>2, <1>3, <1>4 DEF model

(* What it finds under its key is of the current version, and in the first *)
(* microbatch it finds nothing.                                            *)
LEMMA BackwardKeeps == IInv /\ Backward => IInv'
<1> SUFFICES ASSUME IInv, Backward PROVE IInv'
  OBVIOUS
<1> USE Sizes DEF IInv
<1>1. PICK l \in Layer :
        /\ at = <<"backward", l>>
        /\ IF converter = "fp4"
           THEN LET key == ctx[l][1]
                    own == ctx[l][2]
                    cat == IF key \in DOMAIN colCache THEN colCache[key] ELSE own
                IN /\ dgrad' = <<IF handed THEN own ELSE cat, own, micro>>
                   /\ colCache' = IF handed THEN colCache ELSE Put(colCache, key, cat)
                   /\ ctx' = Drop(ctx, l)
           ELSE UNCHANGED <<dgrad, colCache, ctx>>
        /\ IF l > 1 THEN at' = <<"backward", l - 1>> /\ UNCHANGED micro
           ELSE IF micro < GA THEN at' = <<"forward", 1>> /\ micro' = micro + 1
           ELSE at' = <<"optimizer">> /\ UNCHANGED micro
        /\ UNCHANGED <<run, step, trace, model, headKey, headCopy, head>>
  BY DEF Backward
<1>2. /\ Timing' /\ version' = version /\ at[1] = "backward"
      /\ Pending' = Pending \ {l}
      /\ micro' = 1 => micro = 1 /\ at'[1] \in {"backward", "optimizer"}
      /\ at'[1] # "idle"
  BY <1>1, BackwardMoves
<1>3. HeadCache'
  BY <1>1, <1>2 DEF HeadCache
<1>4. converter' = converter /\ head' = head
  BY <1>1 DEF run
<1>5. CASE converter # "fp4"
  <2>1. Pending = {} /\ Pending' = {} /\ UNCHANGED <<dgrad, colCache, ctx>>
    BY <1>1, <1>4, <1>5 DEF Pending
  <2>2. Saved' /\ Cols' /\ Reads'
    BY <2>1, <1>2, <1>4, <1>5 DEF Saved, Cols, Reads
  <2> QED
    BY <1>2, <1>3, <2>2
<1>6. CASE converter = "fp4"
  <2> DEFINE key == ctx[l][1]
             own == ctx[l][2]
             cat == IF key \in DOMAIN colCache THEN colCache[key] ELSE own
  <2>1. /\ dgrad' = <<IF handed THEN own ELSE cat, own, micro>>
        /\ colCache' = IF handed THEN colCache ELSE Put(colCache, key, cat)
        /\ ctx' = Drop(ctx, l)
    BY <1>1, <1>6
  <2>2. l \in DOMAIN ctx
    BY <1>1, <1>2, <1>6 DEF Saved, Pending, Layer
  <2>3. key \in Ids /\ own \in Weights /\ own = <<l, version>> /\ own[2] = version
    BY <2>2 DEF Saved
  <2>4. /\ cat \in Weights /\ cat[2] = version
        /\ micro = 1 => cat = own
    BY <2>2, <2>3 DEF Cols
  <2>5. Reads'
    <3>1. dgrad'[1] \in {own, cat} /\ dgrad'[2] = own /\ dgrad'[3] = micro
      BY <2>1
    <3> HIDE DEF own, cat, key
    <3>2. dgrad'[1][2] = dgrad'[2][2] /\ (dgrad'[3] = 1 => dgrad'[1] = dgrad'[2])
      BY <3>1, <2>3, <2>4
    <3> QED
      BY <3>2, <1>4 DEF Reads
  <2>6. DOMAIN ctx' = DOMAIN ctx \ {l} /\ \A k \in DOMAIN ctx' : ctx'[k] = ctx[k]
    BY <2>1 DEF Drop
  <2>7. Saved'
    BY <2>6, <1>2 DEF Saved
  <2>8. /\ DOMAIN colCache' \subseteq DOMAIN colCache \cup {key}
        /\ \A i \in DOMAIN colCache' :
             \/ colCache'[i] = cat
             \/ i \in DOMAIN colCache /\ colCache'[i] = colCache[i]
    <3> HIDE DEF own, cat, key
    <3> QED
      BY <2>1 DEF Put
  <2>9. \A i \in DOMAIN colCache' : colCache'[i] \in Weights /\ colCache'[i][2] = version
    <3> HIDE DEF own, cat, key
    <3> QED
      BY <2>4, <2>8 DEF Cols
  <2>10. \A k \in DOMAIN ctx' : ctx'[k][1] # key
    BY <2>2, <2>6 DEF Saved
  <2>11. Cols'
    <3> HIDE DEF own, cat, key
    <3> QED
      BY <1>2, <1>4, <1>6, <2>3, <2>6, <2>8, <2>9, <2>10 DEF Cols
  <2> QED
    BY <1>2, <1>3, <2>5, <2>7, <2>11
<1> QED
  BY <1>5, <1>6

(* IInv holds in every state of every behaviour. *)
THEOREM Invariant == Spec => []IInv
<1>1. Init => IInv
  BY InitIInv
<1>2. IInv /\ [Next]_vars => IInv'
  <2> SUFFICES ASSUME IInv, [Next]_vars PROVE IInv'
    OBVIOUS
  <2>1. CASE UNCHANGED vars
    BY <2>1 DEF IInv, Timing, Saved, Pending, Cols, HeadCache, Reads,
                vars, run, loop, model, caches
  <2>2. CASE Next
    BY <2>2, BeginStepKeeps, ForwardKeeps, HeadForwardKeeps, BackwardKeeps,
       OptimizerStepKeeps DEF Next
  <2> QED
    BY <2>1, <2>2
<1> QED
  BY <1>1, <1>2, PTL DEF Spec

(* For any number of layers, microbatches and steps and any set of         *)
(* addresses: a backward never uses weights from before the last optimizer *)
(* step, and in the first microbatch it uses its own layer's               *)
(* (clear_fused_fp4_step_caches).                                          *)
THEOREM DgradCurrent == Spec => []DgradUsesCurrentWeights
<1>1. IInv => TypeOK
  BY Sizes DEF IInv, TypeOK, Timing, Saved, Pending, Cols, Nothing
<1>2. IInv => DgradUsesCurrentWeights
  BY <1>1 DEF IInv, Reads, DgradUsesCurrentWeights
<1> QED
  BY <1>2, Invariant, PTL

(* Likewise the output head always uses its weights as they are, although  *)
(* the version counter may stand still (_forward_weight_quantized).        *)
THEOREM HeadCurrent == Spec => []HeadWeightsCurrent
<1>1. IInv => HeadWeightsCurrent
  BY DEF IInv, Reads, HeadWeightsCurrent
<1> QED
  BY <1>1, Invariant, PTL
=============================================================================
