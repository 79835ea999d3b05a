------------------------ MODULE MCCheckpointManager --------------------------
(* The instances of CheckpointManager that TLC explores: the [checkpoint]     *)
(* sections whose differences the manager's control depends on, and the ones  *)
(* the findings are about.                                                    *)
EXTENDS CheckpointManager

Section(interval, mode, k, first, modelOnly) ==
  [interval |-> interval, async_mode |-> mode, keep_latest_k |-> k,
   enable_first_step_checkpoint |-> first,
   last_save_model_only |-> modelOnly, load_step |-> "latest"]

\* Every save mode, with three or four replicas or all of them, with a model-only last
\* checkpoint, and with load_step as low_bits_training's job_config leaves it.
EverySaveMode == {Section(2, "pinned", 3, FALSE, FALSE),
                  Section(2, "async", 4, TRUE, TRUE),
                  Section(1, "disabled", 4, TRUE, FALSE),
                  Section(3, "disabled", 0, FALSE, FALSE),
                  [Section(2, "async", 0, FALSE, FALSE) EXCEPT !.load_step = "unset"]}

\* The least keep_latest_k that __init__ accepts.
KeepTwo == {Section(2, "pinned", 2, FALSE, FALSE)}
=============================================================================
