------------------------------ MODULE MarketData ------------------------------
(***************************************************************************)
(* The way of a market tick to a prediction: TickCollector, the feature    *)
(* processor and PredictionEngine (src/prediction/prediction_engine.py),   *)
(* three processes that share the raw stream, the feature stream and the   *)
(* window in Redis.  The engine keeps no state: every feature, whichever   *)
(* trade it came from, makes it predict from the window it then finds.     *)
(***************************************************************************)
EXTENDS FeatureProcessor

VARIABLES
    seen,           \* features the group has handed out to the engine
    unsettled,      \* features handed out and not acknowledged
    retrying,       \* those of them the running engine has yet to handle
    prediction      \* the latest prediction: its window and its feature

engineVars == <<seen, unsettled, retrying, prediction>>

EngineTypeOK ==
    /\ seen \in Nat /\ seen \leq Len(features)
    /\ unsettled \subseteq 1..seen /\ retrying \subseteq unsettled
    /\ prediction = Nothing \/
       prediction \in [window : Seq(Candles), candle : Nat, saved : BOOLEAN]

EngineInit ==
    /\ seen = 0 /\ unsettled = {} /\ retrying = {}
    /\ prediction = Nothing

-----------------------------------------------------------------------------
NextFeature == IF retrying # {} THEN CHOOSE e \in retrying : \A f \in retrying : e \leq f
               ELSE seen + 1

(* _get_feature_window()                                                   *)
FeatureWindow == IF clock < stored.until THEN stored.candles ELSE <<>>

(* _prepare_sequence(): the latest of the candles that have indicators, in *)
(* their order, as many as the model reads or all if they are fewer.       *)
Sequence ==
    LET valid == {i \in DOMAIN FeatureWindow : FeatureWindow[i].valid}
        count == Cardinality(valid)
        nth(n) == CHOOSE i \in valid : Cardinality({j \in valid : j \leq i}) = n
        length == IF count < Lookback THEN count ELSE Lookback
    IN  [k \in 1..length |-> FeatureWindow[nth(count - length + k)]]

(* process_message(): a feature is settled if there is no window, if it    *)
(* cannot be read, and once the prediction is published.  Not if that      *)
(* fails, or the engine dies before the acknowledgement.                   *)
HandleFeature ==
    /\ NextFeature \leq Len(features)
    /\ LET e == NextFeature
           f == features[e]
       IN
       /\ seen' = IF retrying # {} THEN seen ELSE seen + 1
       /\ retrying' = retrying \ {e}
       /\ \/ /\ \/ Len(Sequence) < Lookback /\ UNCHANGED faults
                \/ Fault
             /\ unsettled' = unsettled \ {e} /\ UNCHANGED prediction
          \/ /\ Len(Sequence) >= Lookback
             /\ prediction' = [window |-> Sequence, candle |-> f.candle, saved |-> f.saved]
             /\ \/ unsettled' = unsettled \ {e} /\ UNCHANGED faults
                \/ unsettled' = unsettled \cup {e} /\ Fault
          \/ /\ Fault
             /\ unsettled' = unsettled \cup {e} /\ UNCHANGED prediction

RestartEngine ==
    /\ Fault
    /\ retrying' = unsettled
    /\ UNCHANGED <<seen, unsettled, prediction>>

EngineNext == HandleFeature \/ RestartEngine

-----------------------------------------------------------------------------
marketVars == <<clock, faults, collectorVars, processorVars, engineVars>>

MarketInit == CollectorInit /\ ProcessorInit /\ EngineInit

MarketNext ==
    \/ CollectorNext /\ UNCHANGED <<processorVars, engineVars>>
    \/ ProcessorNext /\ UNCHANGED <<clock, collectorVars, engineVars>>
    \/ EngineNext /\ UNCHANGED <<clock, collectorVars, processorVars>>

MarketSpec == MarketInit /\ [][MarketNext]_marketVars

-----------------------------------------------------------------------------
(* Properties                                                              *)

(* A prediction is made from a full window of candles with indicators that *)
(* one run of the processor completed one after the other: no candle is    *)
(* missing, none is of an earlier run, and no trade is in two of them or   *)
(* out of order.                                                           *)
WindowSound ==
    prediction # Nothing =>
        LET w == prediction.window
        IN  /\ Len(w) = Lookback
            /\ \A i \in 1..Lookback : w[i].valid
            /\ \A i \in 1..Lookback - 1 :
                  /\ w[i + 1].number = w[i].number + 1 /\ w[i + 1].life = w[i].life
                  /\ \A s \in w[i].ticks, t \in w[i + 1].ticks : s < t

(* A prediction that the feature of a completed candle caused has seen     *)
(* that candle, or later ones, unless its window could not be stored.      *)
PredictionSeesCandle ==
    prediction # Nothing /\ prediction.saved =>
        prediction.window[Lookback].number >= prediction.candle

(* With it, streams, windows and candles keep their shape.                 *)
MarketSound == CollectorTypeOK /\ ProcessorTypeOK /\ EngineTypeOK /\ WindowSound
=============================================================================
