------------------------------- MODULE Training -------------------------------
(***************************************************************************)
(* A directory of models and the scripts that train into it, one after the *)
(* other: the classifier of train_triple_barrier.py, the network of        *)
(* train_lstm.py, and the regressors of train_regression.py, one for each  *)
(* horizon, which scripts/backtest.py loads together.  A model is its file *)
(* (.pth), its metadata (.json) and the scaler of its inputs; the scaler's *)
(* name does not depend on the model, so a directory has one.              *)
(*                                                                         *)
(* What an epoch scores is left open.  Runs may be killed.                 *)
(***************************************************************************)
EXTENDS Integers, Sequences, SequencesExt

CONSTANTS
    Outputs,        \* names of models in the directory (--output)
    Accuracies,     \* of an epoch on the validation rows, from 0
    Losses,         \* of an epoch on the validation rows
    MaxEpochs,      \* epochs
    Patience,       \* early_stop_patience
    MaxRuns,        \* bound: runs of a script
    NoRun           \* run of a file that was never written

Scripts == {"classifier", "lstm", "regressor"}
Infinity == 1000    \* the loss no epoch reaches
NaN == 1001         \* is not below anything

ASSUME TrainingAssumption ==
    /\ MaxEpochs \in Nat \ {0} /\ Patience \in Nat \ {0}
    /\ Accuracies \subseteq Nat /\ Losses \subseteq 0..Infinity - 1
    /\ NoRun \notin Nat \ {0}

VARIABLES
    runs,           \* runs started: their script, output and scores of their epochs
    training,       \* whether the last one is training
    best,           \* best_val_acc, best_val_loss
    waiting,        \* patience_counter
    scaler,         \* run that wrote scaler.json
    models,         \* of each output: run and epoch in the .pth
    metas           \* of each output: run that wrote the .json, run whose model it reports

trainingVars == <<runs, training, best, waiting, scaler, models, metas>>

Run == Len(runs)
ThisRun == runs[Run]
Epoch == Len(ThisRun.scores)

-----------------------------------------------------------------------------
(* main() up to the call of train_model(): the scaler is on disk before    *)
(* the first epoch.                                                        *)
BeginRun(script, output, worst) ==
    /\ ~training /\ Run < MaxRuns
    /\ runs' = Append(runs, [script |-> script, output |-> output, scores |-> <<>>])
    /\ training' = TRUE
    /\ best' = worst /\ waiting' = 0
    /\ scaler' = Run + 1
    /\ UNCHANGED <<models, metas>>

PrepareClassifier == \E o \in Outputs : BeginRun("classifier", o, 0)
PrepareLstm == \E o \in Outputs : BeginRun("lstm", o, 0)
PrepareRegressor == \E o \in Outputs : BeginRun("regressor", o, Infinity)

(* One turn of the loop of train_model().                                  *)
Learn(script, score, improves) ==
    /\ training /\ ThisRun.script = script
    /\ Epoch < MaxEpochs /\ waiting < Patience
    /\ runs' = [runs EXCEPT ![Run].scores = Append(@, score)]
    /\ \/ /\ improves
          /\ best' = score /\ waiting' = 0
          /\ models' = [models EXCEPT ![ThisRun.output] = [run |-> Run, epoch |-> Epoch + 1]]
       \/ /\ ~improves
          /\ waiting' = waiting + 1
          /\ UNCHANGED <<best, models>>
    /\ UNCHANGED <<training, scaler, metas>>

ClassifierEpoch == \E a \in Accuracies : Learn("classifier", a, a > best)
LstmEpoch == \E a \in Accuracies : Learn("lstm", a, a > best)
RegressorEpoch == \E l \in Losses \cup {NaN} : Learn("regressor", l, l # NaN /\ l < best)

Trained(script) ==
    /\ training /\ ThisRun.script = script
    /\ Epoch = MaxEpochs \/ waiting = Patience
    /\ training' = FALSE

Report(of) == metas' = [metas EXCEPT ![ThisRun.output] = [run |-> Run, of |-> of]]

(* The best model is read back, evaluated and reported.  If there is no    *)
(* file torch.load() raises, and the run ends without metadata.            *)
ReadBack ==
    \/ models[ThisRun.output].run = NoRun /\ UNCHANGED metas
    \/ models[ThisRun.output].run # NoRun /\ Report(models[ThisRun.output].run)

FinishClassifier ==
    Trained("classifier") /\ ReadBack /\ UNCHANGED <<runs, best, waiting, scaler, models>>

FinishRegressor ==
    Trained("regressor") /\ ReadBack /\ UNCHANGED <<runs, best, waiting, scaler, models>>

(* Here nothing is read back; the metadata is of this run in any case.     *)
FinishLstm ==
    Trained("lstm") /\ Report(Run) /\ UNCHANGED <<runs, best, waiting, scaler, models>>

Kill ==
    /\ training /\ training' = FALSE
    /\ UNCHANGED <<runs, best, waiting, scaler, models, metas>>

-----------------------------------------------------------------------------
TrainingInit ==
    /\ runs = <<>> /\ training = FALSE
    /\ best = 0 /\ waiting = 0
    /\ scaler = NoRun
    /\ models = [o \in Outputs |-> [run |-> NoRun, epoch |-> 0]]
    /\ metas = [o \in Outputs |-> [run |-> NoRun, of |-> NoRun]]

TrainingNext ==
    \/ PrepareClassifier \/ PrepareLstm \/ PrepareRegressor
    \/ ClassifierEpoch \/ LstmEpoch \/ RegressorEpoch
    \/ FinishClassifier \/ FinishLstm \/ FinishRegressor
    \/ Kill

-----------------------------------------------------------------------------
(* Properties                                                              *)

Beats(script, x, y) == IF script = "regressor" THEN x # NaN /\ (y = NaN \/ x < y) ELSE x > y
Worst(script) == IF script = "regressor" THEN NaN ELSE 0

(* Epochs of a run that beat all the epochs before them.                   *)
Records(r) ==
    {e \in DOMAIN runs[r].scores :
        /\ Beats(runs[r].script, runs[r].scores[e], Worst(runs[r].script))
        /\ \A d \in 1..e - 1 : Beats(runs[r].script, runs[r].scores[e], runs[r].scores[d])}

RunsOf(o) == {r \in DOMAIN runs : runs[r].output = o}

(* The file of a model is that of the last run into its output that had an *)
(* epoch better than nothing, and of that run's best epoch, the first if   *)
(* there are several, whenever the runs were killed.                       *)
BestIsKept ==
    \A o \in Outputs :
        LET able == {r \in RunsOf(o) : Records(r) # {}}
        IN  IF able = {} THEN models[o].run = NoRun
            ELSE /\ models[o].run \in able /\ \A r \in able : r \leq models[o].run
                 /\ models[o].epoch \in Records(models[o].run)
                 /\ \A e \in Records(models[o].run) : e \leq models[o].epoch

(* A run that is not killed sees every epoch, or gives up when exactly     *)
(* Patience epochs have passed since its best one.                         *)
GivesUpInTime ==
    training => LET since == IF Records(Run) = {} THEN Epoch
                           ELSE Epoch - (CHOOSE e \in Records(Run) : \A d \in Records(Run) : d \leq e)
              IN  since = waiting /\ since \leq Patience

(* The scaler next to a model is the model's own only if no run has been   *)
(* started in the directory since; when the last one was for this output,  *)
(* it has had no epoch better than nothing.                                *)
ScalerFits ==
    \A o \in Outputs :
        models[o].run # NoRun /\ scaler # models[o].run
            => /\ scaler = Run /\ models[o].run < scaler
               /\ runs[scaler].output # o \/ Records(scaler) = {}

(* Metadata that report another run's model are those of a run without an  *)
(* epoch better than nothing; the metrics of train_lstm, which reads no    *)
(* model back, may have no model at all.                                   *)
MetadataFit ==
    \A o \in Outputs :
        /\ metas[o].run # metas[o].of => Records(metas[o].run) = {}
        /\ metas[o].run # NoRun /\ models[o].run = NoRun => runs[metas[o].run].script = "lstm"

(* The directory is what its readers may rely on.                          *)
TrainingSound == BestIsKept /\ GivesUpInTime /\ ScalerFits /\ MetadataFit
===============================================================================
