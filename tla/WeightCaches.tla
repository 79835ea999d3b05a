----------------------------- MODULE WeightCaches -----------------------------
(***************************************************************************)
(* The copies of quantised weights that the FP4 layers keep from one call  *)
(* to the next: the columnwise copy of the fused QKV layers' weights, kept *)
(* under the id() of a tensor object, and the output head's copy, kept     *)
(* under the training step.  Both are step-scoped: the optimizer's post    *)
(* hook empties them when the converter installs one.                      *)
(*                                                                         *)
(* The weights of a layer are <<layer, version>>, the version counting     *)
(* optimizer steps.  Storage, layout and numerics are left out; so is the  *)
(* second cache of weight splits, whose keys are addresses the first keeps *)
(* alive and which is emptied with it.                                     *)
(***************************************************************************)
EXTENDS Integers

CONSTANTS
  Layers,     \* number of fused QKV layers, of equal shapes
  GA,         \* gradient_accumulation_steps
  Steps,      \* bound: optimizer steps of a behaviour
  Ids         \* addresses a tensor object can have

ASSUME CacheSizes ==
  /\ Layers \in Nat \ {0} /\ GA \in Nat \ {0} /\ Steps \in Nat \ {0}
  /\ Ids # {}

Layer == 1 .. Layers
Weights == Layer \X (0 .. Steps)
Nothing == 0        \* no step (LBT_TRACE_ACTIVE_STEP unset), no copy

VARIABLES
  converter,  \* "fp4" installs the QKV layers and the hook, "mxfp4_tk" neither
  handed,     \* backward is handed the columnwise weights or has to build them
  step, micro,
  at,         \* <<"forward" | "backward", layer>>, <<"head">>, <<"optimizer">>, <<"idle">>
  version,    \* optimizer steps applied to the weights
  counter,    \* _version of the head's weight tensor
  trace,      \* LBT_TRACE_ACTIVE_STEP
  ctx,        \* layer -> <<id, weights>> its forward saved; only pending layers
  colCache,   \* id -> weights: _FusedQKVFunction_TK._w_col_cache
  headKey, headCopy,   \* _weight_quant_cache_key and _weight_quant_cache
  dgrad,      \* last weights a backward read, its forward's, and micro then; or <<>>
  head        \* version of the head's weights last read and the current one then

run == <<converter, handed>>
loop == <<step, micro, at, trace>>
model == <<version, counter>>
caches == <<colCache, headKey, headCopy>>
vars == <<run, loop, model, ctx, caches, dgrad, head>>

Init ==
  /\ converter \in {"fp4", "mxfp4_tk"} /\ handed \in BOOLEAN
  /\ step = 0 /\ micro = 0 /\ at = <<"idle">> /\ trace = Nothing
  /\ version = 0 /\ counter = 0
  /\ ctx = [l \in {} |-> <<>>] /\ colCache = [i \in {} |-> <<>>]
  /\ headKey = <<>> /\ headCopy = Nothing
  /\ dgrad = <<>> /\ head = <<>>

Put(f, k, v) == [x \in DOMAIN f \cup {k} |-> IF x = k THEN v ELSE f[x]]
Drop(f, k) == [x \in DOMAIN f \ {k} |-> f[x]]
Alive == {ctx[l][1] : l \in DOMAIN ctx}

(* train_step sets LBT_TRACE_ACTIVE_STEP for all that happens in it.       *)
BeginStep ==
  /\ at = <<"idle">> /\ step < Steps
  /\ step' = step + 1 /\ micro' = 1 /\ trace' = step + 1
  /\ at' = <<"forward", 1>>
  /\ UNCHANGED <<run, model, ctx, caches, dgrad, head>>

(* The forward of a QKV layer quantises its weights into new tensors; the  *)
(* first of them is an object at an address no living object has.          *)
Forward ==
  \E l \in Layer, i \in Ids \ Alive :
    /\ at = <<"forward", l>>
    /\ ctx' = IF converter = "fp4" THEN Put(ctx, l, <<i, <<l, version>>>>) ELSE ctx
    /\ at' = IF l = Layers THEN <<"head">> ELSE <<"forward", l + 1>>
    /\ UNCHANGED <<run, step, micro, trace, model, caches, dgrad, head>>

(* _NVFP4Backend._forward_weight_quantized: one copy, kept under the step  *)
(* and the tensor's version counter.                                       *)
HeadKeyDeviation == <<Nothing, counter>>
HeadKey == <<trace, counter>>
HeadForward ==
  LET hit == headKey = HeadKey
      copy == IF hit THEN headCopy ELSE version
  IN /\ at = <<"head">>
     /\ headKey' = HeadKey /\ headCopy' = copy
     /\ head' = <<copy, version>>
     /\ at' = <<"backward", Layers>>
     /\ UNCHANGED <<run, step, micro, trace, model, ctx, colCache, dgrad>>

(* The backward of a QKV layer.  Unless it was handed the columnwise       *)
(* weights it looks them up by the id of the first of the tensors that its *)
(* forward saved, or builds and keeps them; on its way out it drops the    *)
(* tensors, and with them their addresses.                                 *)
Backward ==
  \E l \in Layer :
    /\ at = <<"backward", l>>
    /\ IF converter = "fp4"
       THEN LET key == ctx[l][1]
                own == ctx[l][2]
                cat == IF key \in DOMAIN colCache THEN colCache[key] ELSE own
            IN /\ dgrad' = <<IF handed THEN own ELSE cat, own, micro>>
               /\ colCache' = IF handed THEN colCache ELSE Put(colCache, key, cat)
               /\ ctx' = Drop(ctx, l)
       ELSE UNCHANGED <<dgrad, colCache, ctx>>
    /\ IF l > 1 THEN at' = <<"backward", l - 1>> /\ UNCHANGED micro
       ELSE IF micro < GA THEN at' = <<"forward", 1>> /\ micro' = micro + 1
       ELSE at' = <<"optimizer">> /\ UNCHANGED micro
    /\ UNCHANGED <<run, step, trace, model, headKey, headCopy, head>>

(* post_optimizer_hook of the converter: invalidate_weight_cache of every  *)
(* module, then clear_fused_fp4_step_caches.  Other converters pass.       *)
EmptyCachesDeviation ==
  IF converter = "fp4"
  THEN headKey' = <<>> /\ headCopy' = Nothing /\ UNCHANGED colCache
  ELSE UNCHANGED caches
EmptyCaches ==
  IF converter = "fp4"
  THEN headKey' = <<>> /\ headCopy' = Nothing /\ colCache' = [i \in {} |-> <<>>]
  ELSE UNCHANGED caches

(* optimizers.step: FSDP may write the weights without a trace in the      *)
(* tensor's version counter; the end of train_step unsets the active step. *)
OptimizerStep ==
  /\ at = <<"optimizer">>
  /\ version' = version + 1
  /\ counter' \in {counter, counter + 1}
  /\ EmptyCaches
  /\ trace' = Nothing /\ at' = <<"idle">>
  /\ UNCHANGED <<run, step, micro, ctx, dgrad, head>>

Next == BeginStep \/ Forward \/ HeadForward \/ Backward \/ OptimizerStep

Spec == Init /\ [][Next]_vars
-----------------------------------------------------------------------------
TypeOK ==
  /\ step \in 0 .. Steps /\ micro \in 0 .. GA /\ trace \in {Nothing, step}
  /\ version \in {step, step - 1} /\ counter \in 0 .. version
  /\ DOMAIN ctx \subseteq Layer /\ \A l \in DOMAIN ctx : ctx[l] \in Ids \X Weights
  /\ DOMAIN colCache \subseteq Ids /\ \A i \in DOMAIN colCache : colCache[i] \in Weights

(* A backward never uses weights from before the last optimizer step, and  *)
(* in the first microbatch of a step it uses its own layer's: the hook     *)
(* empties the cache before an address can come back in another version    *)
(* (clear_fused_fp4_step_caches).                                          *)
DgradUsesCurrentWeights ==
  TypeOK /\ (dgrad # <<>> =>
    /\ dgrad[1][2] = dgrad[2][2]
    /\ dgrad[3] = 1 => dgrad[1] = dgrad[2])

(* The output head's loss is computed with the weights as they are now,    *)
(* although its copy is reused within a step, the version counter may      *)
(* stand still and the converter may install no hook                       *)
(* (_forward_weight_quantized).                                            *)
HeadWeightsCurrent == head # <<>> => head[1] = head[2]

(* What the forward says it does: it saves the columnwise weights for the  *)
(* backward of the same call, which computes the input's gradient with     *)
(* the weights that produced the output.                                   *)
DgradUsesOwnWeights == dgrad # <<>> => dgrad[1] = dgrad[2]
=============================================================================
