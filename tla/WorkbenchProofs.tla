---------------------------- MODULE WorkbenchProofs ----------------------------
(***************************************************************************)
(* Theorems about the parts of the workbench, for the specification of     *)
(* Components: the indicators and the trend engine's filter, the files of  *)
(* the training scripts, the trades of the offline backtests, and what the *)
(* scripts before them make of a series of bars.                           *)
(***************************************************************************)
EXTENDS ComponentsProofs

-----------------------------------------------------------------------------
(* Windows of a sequence                                                   *)

(* What is kept of a sequence: its last elements, n of them at most.       *)
LEMMA KeptIs ==
    ASSUME NEW S, NEW s \in Seq(S), NEW n \in Nat
    PROVE  /\ Kept(s, n) \in Seq(S)
           /\ Len(Kept(s, n)) = IF Len(s) <= n THEN Len(s) ELSE n
           /\ Len(Kept(s, n)) <= Len(s)
           /\ \A i \in 1..Len(Kept(s, n)) :
                 /\ Len(s) - Len(Kept(s, n)) + i \in 1..Len(s)
                 /\ Kept(s, n)[i] = s[Len(s) - Len(Kept(s, n)) + i]
  <1>1. CASE Len(s) <= n
    BY <1>1 DEF Kept
  <1>2. CASE ~(Len(s) <= n)
    <2> DEFINE t == SubSeq(s, Len(s) - n + 1, Len(s))
    <2>1. t \in Seq(S) /\ Len(t) = n
      BY <1>2
    <2>2. \A i \in 1..n : t[i] = s[Len(s) - n + i]
      BY <1>2
    <2>. QED
      BY <1>2, <2>1, <2>2 DEF Kept
  <1>. QED
    BY <1>1, <1>2

(* Sequences of one length with the same elements are one.                 *)
LEMMA SameSequence ==
    ASSUME NEW S, NEW s \in Seq(S), NEW t \in Seq(S), Len(s) = Len(t),
           \A i \in 1..Len(s) : s[i] = t[i]
    PROVE  s = t
  OBVIOUS

(* What is kept of what was kept is what would be kept at once.            *)
LEMMA KeptOfKept ==
    ASSUME NEW S, NEW s \in Seq(S), NEW n \in Nat, NEW m \in Nat, m <= n
    PROVE  Kept(Kept(s, n), m) = Kept(s, m)
  <1> DEFINE t == Kept(s, n)
             u == Kept(t, m)
             v == Kept(s, m)
  <1>1. /\ t \in Seq(S) /\ Len(t) = IF Len(s) <= n THEN Len(s) ELSE n
        /\ \A i \in 1..Len(t) : t[i] = s[Len(s) - Len(t) + i]
    BY KeptIs
  <1>2. /\ v \in Seq(S) /\ Len(v) = IF Len(s) <= m THEN Len(s) ELSE m
        /\ \A i \in 1..Len(v) : v[i] = s[Len(s) - Len(v) + i]
    BY KeptIs
  <1> HIDE DEF t
  <1>3. /\ u \in Seq(S) /\ Len(u) = IF Len(t) <= m THEN Len(t) ELSE m
        /\ \A i \in 1..Len(u) : Len(t) - Len(u) + i \in 1..Len(t) /\ u[i] = t[Len(t) - Len(u) + i]
    <2>1. t \in Seq(S)
      BY <1>1
    <2>. QED
      BY <2>1, KeptIs
  <1> HIDE DEF u, v
  <1>4. Len(u) = Len(v)
    BY <1>1, <1>2, <1>3
  <1>5. ASSUME NEW i \in 1..Len(u)
        PROVE  u[i] = v[i]
    <2>1. u[i] = s[Len(s) - Len(t) + (Len(t) - Len(u) + i)]
      BY <1>1, <1>3
    <2>2. Len(s) - Len(t) + (Len(t) - Len(u) + i) = Len(s) - Len(v) + i
      <3>1. Len(s) \in Nat /\ Len(t) \in Nat /\ Len(u) \in Nat /\ i \in Int
        BY <1>1, <1>3
      <3>. QED
        BY <3>1, <1>4
    <2>. QED
      BY <2>1, <2>2, <1>2, <1>4
  <1>6. u = v
    BY <1>2, <1>3, <1>4, <1>5, SameSequence
  <1>. QED
    BY <1>6 DEF t, u, v

(* A deque of what was kept is what is kept of all.                        *)
LEMMA KeptGrows ==
    ASSUME NEW S, NEW s \in Seq(S), NEW x \in S, NEW n \in Nat
    PROVE  Append1(Kept(s, n), x, n) = Kept(Append(s, x), n)
  <1> DEFINE t == Kept(s, n)
             sx == Append(s, x)
             tx == Append(t, x)
             u == Kept(tx, n)
             v == Kept(sx, n)
             Ls == Len(s)
             Lt == Len(t)
             Lu == Len(u)
             Lv == Len(v)
  <1>1. /\ t \in Seq(S) /\ Ls \in Nat /\ Lt \in Nat /\ Lt = IF Ls <= n THEN Ls ELSE n
        /\ \A i \in 1..Lt : Ls - Lt + i \in 1..Ls /\ t[i] = s[Ls - Lt + i]
    <2>1. t \in Seq(S) /\ Lt = (IF Ls <= n THEN Ls ELSE n)
      BY KeptIs
    <2>2. \A i \in 1..Lt : Ls - Lt + i \in 1..Ls /\ t[i] = s[Ls - Lt + i]
      BY KeptIs
    <2>3. Ls \in Nat /\ Lt \in Nat
      BY <2>1
    <2>. QED
      BY <2>1, <2>2, <2>3
  <1>2. /\ sx \in Seq(S) /\ Len(sx) = Ls + 1
        /\ \A i \in 1..Ls : sx[i] = s[i]
        /\ sx[Ls + 1] = x
    OBVIOUS
  <1> HIDE DEF t
  <1>3. /\ tx \in Seq(S) /\ Len(tx) = Lt + 1
        /\ \A i \in 1..Lt : tx[i] = t[i]
        /\ tx[Lt + 1] = x
    BY <1>1
  <1> HIDE DEF sx, tx
  <1>4. /\ v \in Seq(S) /\ Lv \in Nat /\ Lv = IF Ls + 1 <= n THEN Ls + 1 ELSE n
        /\ \A i \in 1..Lv : v[i] = sx[Ls + 1 - Lv + i]
    <2>0. sx \in Seq(S)
      BY <1>2
    <2>1. v \in Seq(S) /\ Lv = (IF Len(sx) <= n THEN Len(sx) ELSE n)
      BY <2>0, KeptIs
    <2>2. \A i \in 1..Lv : v[i] = sx[Len(sx) - Lv + i]
      BY <2>0, KeptIs
    <2> HIDE DEF v, Lv
    <2>3. Lv \in Nat /\ Lv = IF Ls + 1 <= n THEN Ls + 1 ELSE n
      BY <2>1, <1>2, <1>1
    <2>4. Len(sx) = Ls + 1 /\ Ls \in Nat
      BY <1>2, <1>1
    <2> HIDE DEF Ls, Lt
    <2>5. \A i \in 1..Lv : v[i] = sx[Ls + 1 - Lv + i]
      BY <2>2, <2>3, <2>4
    <2>. QED
      BY <2>1, <2>3, <2>5
  <1>5. /\ u \in Seq(S) /\ Lu \in Nat /\ Lu = IF Lt + 1 <= n THEN Lt + 1 ELSE n
        /\ \A i \in 1..Lu : u[i] = tx[Lt + 1 - Lu + i]
    <2>0. tx \in Seq(S)
      BY <1>3
    <2>1. u \in Seq(S) /\ Lu = (IF Len(tx) <= n THEN Len(tx) ELSE n)
      BY <2>0, KeptIs
    <2>2. \A i \in 1..Lu : u[i] = tx[Len(tx) - Lu + i]
      BY <2>0, KeptIs
    <2> HIDE DEF u, Lu
    <2>3. Lu \in Nat /\ Lu = IF Lt + 1 <= n THEN Lt + 1 ELSE n
      BY <2>1, <1>3, <1>1
    <2>4. Len(tx) = Lt + 1 /\ Lt \in Nat
      BY <1>3, <1>1
    <2> HIDE DEF Ls, Lt
    <2>5. \A i \in 1..Lu : u[i] = tx[Lt + 1 - Lu + i]
      BY <2>2, <2>3, <2>4
    <2>. QED
      BY <2>1, <2>3, <2>5
  <1> HIDE DEF u, v, Ls, Lt, Lu, Lv
  <1>6. Lu = Lv
    BY <1>1, <1>4, <1>5
  <1>7. ASSUME NEW i \in 1..Lu
        PROVE  u[i] = v[i]
    <2>0. u[i] = tx[Lt + 1 - Lu + i] /\ v[i] = sx[Ls + 1 - Lu + i]
      BY <1>4, <1>5, <1>6
    <2>1. CASE i = Lu
      <3>1. Lt + 1 - Lu + i = Lt + 1 /\ Ls + 1 - Lu + i = Ls + 1
        BY <2>1, <1>1, <1>5
      <3>. QED
        BY <3>1, <2>0, <1>2, <1>3
    <2>2. CASE i # Lu
      <3>1. Lt + 1 - Lu + i \in 1..Lt /\ Ls + 1 - Lu + i \in 1..Ls
        BY <2>2, <1>1, <1>5
      <3>2. u[i] = t[Lt + 1 - Lu + i] /\ v[i] = s[Ls + 1 - Lu + i]
        BY <3>1, <2>0, <1>2, <1>3
      <3>3. u[i] = s[Ls - Lt + (Lt + 1 - Lu + i)]
        BY <3>1, <3>2, <1>1
      <3>4. Ls - Lt + (Lt + 1 - Lu + i) = Ls + 1 - Lu + i
        BY <1>1, <1>5
      <3>. QED
        BY <3>2, <3>3, <3>4
    <2>. QED
      BY <2>1, <2>2
  <1>8. u = v
    BY <1>4, <1>5, <1>6, <1>7, SameSequence DEF Lu, Lv
  <1>. QED
    BY <1>8 DEF t, u, v, sx, tx, Append1
-----------------------------------------------------------------------------
(* The indicators                                                          *)

(* The true ranges of all bars, from the second on.                        *)
AllRanges(bars) == [i \in 1..Len(bars) - 1 |-> TrueRange(bars[i + 1], bars[i].close)]

(* The windows are what is kept of the bars, of their ranges and regimes.  *)
WindowsAre ==
    /\ window = Kept(fed, LongestPeriod + Spare)
    /\ ranges = Kept(AllRanges(fed), AtrPeriod)
    /\ detector.bars = Kept(fed, DetectorKeeps)
    /\ detector.regimes = Kept(raws, 10)

IndicatorsInv ==
    /\ fed \in Seq(FedBars) /\ raws \in Seq({"LOW", "MEDIUM", "HIGH"})
    /\ WindowsAre /\ RegimeConfirmed

(* The periods are numbers, none longer than the window.                   *)
LEMMA IndicatorNumbers ==
    /\ \A n \in {MaFast, MaSlow, AtrPeriod, Tenkan, Kijun, SenkouB, DetectorKeeps, Smoothing} :
          n \in Nat /\ n > 0
    /\ LongestPeriod \in Nat /\ Spare \in Nat
    /\ \A n \in {MaFast, MaSlow, AtrPeriod, Tenkan, Kijun, SenkouB} : n <= LongestPeriod
    /\ AtrPeriod < MaSlow /\ AtrPeriod < DetectorKeeps /\ Smoothing <= 10
  <1>1. \A n \in {MaFast, MaSlow, AtrPeriod, Tenkan, Kijun, SenkouB, DetectorKeeps, Smoothing} :
          n \in Nat /\ n > 0
    BY IndicatorsAssumption
  <1>2. /\ MaSlow \in 0..MaSlow + SenkouB /\ SenkouB \in 0..MaSlow + SenkouB
        /\ MaSlow + SenkouB \in Nat
    BY <1>1
  <1>3. LongestPeriod \in {MaSlow, SenkouB} /\ \A x \in {MaSlow, SenkouB} : x <= LongestPeriod
    BY <1>2, GreatestIs DEF LongestPeriod
  <1>. QED
    BY <1>1, <1>3, IndicatorsAssumption

(* What is in a bar.                                                       *)
LEMMA FedBarIs ==
    ASSUME NEW b \in FedBars
    PROVE  /\ b.high \in Nat /\ b.low \in Nat /\ b.close \in Nat /\ b.volume \in Nat
           /\ b.low <= b.close /\ b.close <= b.high
  BY IndicatorsAssumption

(* A true range is not negative.                                           *)
LEMMA TrueRangeIs ==
    ASSUME NEW b \in FedBars, NEW q \in Nat
    PROVE  TrueRange(b, q) \in Nat
  <1> DEFINE n == b.high + b.low + q
             A == b.high - b.low
             B == Distance(b.high, q)
             C == Distance(b.low, q)
  <1>1. n \in Nat /\ A \in 0..n /\ B \in 0..n /\ C \in 0..n
    BY FedBarIs DEF Distance
  <1>2. Max({A, B, C}) \in {A, B, C}
    <2> HIDE DEF n, A, B, C
    <2>. QED
      BY <1>1, GreatestIs
  <1>. QED
    BY <1>1, <1>2 DEF TrueRange

(* One more bar brings one more range, the first one none.                 *)
LEMMA RangesGrow ==
    ASSUME NEW s \in Seq(FedBars), NEW b \in FedBars
    PROVE  /\ AllRanges(s) \in Seq(Nat)
           /\ Len(AllRanges(s)) = IF s = <<>> THEN 0 ELSE Len(s) - 1
           /\ s = <<>> => AllRanges(Append(s, b)) = <<>> /\ AllRanges(s) = <<>>
           /\ s # <<>> => AllRanges(Append(s, b))
                            = Append(AllRanges(s), TrueRange(b, s[Len(s)].close))
  <1>1. AllRanges(s) \in Seq(Nat) /\ Len(AllRanges(s)) = IF s = <<>> THEN 0 ELSE Len(s) - 1
    <2>1. \A i \in 1..Len(s) - 1 : TrueRange(s[i + 1], s[i].close) \in Nat
      <3>. SUFFICES ASSUME NEW i \in 1..Len(s) - 1
                    PROVE  TrueRange(s[i + 1], s[i].close) \in Nat
        OBVIOUS
      <3>1. s[i + 1] \in FedBars /\ s[i] \in FedBars
        OBVIOUS
      <3>. QED
        BY <3>1, TrueRangeIs, FedBarIs
    <2>2. CASE s = <<>>
      <3>1. Len(s) = 0 /\ 1..Len(s) - 1 = {}
        BY <2>2
      <3>2. AllRanges(s) = <<>>
        BY <3>1 DEF AllRanges
      <3>. QED
        BY <3>2, <2>2
    <2>3. CASE s # <<>>
      <3>1. Len(s) - 1 \in Nat
        BY <2>3
      <3>. QED
        BY <2>1, <2>3, <3>1 DEF AllRanges
    <2>. QED
      BY <2>2, <2>3
  <1>2. ASSUME s = <<>>
        PROVE  AllRanges(Append(s, b)) = <<>> /\ AllRanges(s) = <<>>
    <2>1. Len(Append(s, b)) = 1 /\ Len(s) = 0 /\ 1..Len(Append(s, b)) - 1 = {} /\ 1..Len(s) - 1 = {}
      BY <1>2
    <2>. QED
      BY <2>1 DEF AllRanges
  <1>3. ASSUME s # <<>>
        PROVE  AllRanges(Append(s, b)) = Append(AllRanges(s), TrueRange(b, s[Len(s)].close))
    <2> DEFINE t == Append(s, b)
               n == Len(s)
    <2>1. n \in Nat \ {0} /\ Len(t) = n + 1 /\ t[n + 1] = b /\ \A i \in 1..n : t[i] = s[i]
      BY <1>3
    <2> DEFINE u == [i \in 1..n |-> TrueRange(t[i + 1], t[i].close)]
               v == Append(AllRanges(s), TrueRange(b, s[n].close))
    <2>2. AllRanges(t) = u
      <3>1. Len(t) - 1 = n
        BY <2>1
      <3>. QED
        BY <3>1 DEF AllRanges
    <2>3. Len(AllRanges(s)) = n - 1 /\ AllRanges(s) \in Seq(Nat) /\ TrueRange(b, s[n].close) \in Nat
      <3>1. s[n] \in FedBars
        BY <2>1
      <3>. QED
        BY <3>1, <1>1, <1>3, <2>1, FedBarIs, TrueRangeIs
    <2>4. v \in Seq(Nat) /\ Len(v) = n /\ v[n] = TrueRange(b, s[n].close)
          /\ \A i \in 1..n - 1 : v[i] = AllRanges(s)[i]
      BY <2>1, <2>3
    <2>5. \A i \in 1..n - 1 : AllRanges(s)[i] = TrueRange(s[i + 1], s[i].close)
      BY DEF AllRanges
    <2> HIDE DEF v, t, n
    <2>6. ASSUME NEW i \in 1..n
          PROVE  u[i] = v[i]
      <3>1. CASE i = n
        <4>1. u[i] = TrueRange(b, s[n].close)
          BY <3>1, <2>1
        <4>. QED
          BY <4>1, <3>1, <2>4
      <3>2. CASE i # n
        <4>1. i \in 1..n - 1 /\ i + 1 \in 1..n
          BY <3>2, <2>1
        <4>2. u[i] = TrueRange(s[i + 1], s[i].close)
          BY <4>1, <2>1
        <4>. QED
          BY <4>1, <4>2, <2>4, <2>5
      <3>. QED
        BY <3>1, <3>2
    <2>7. u \in Seq(Nat) /\ Len(u) = n
      <3>1. \A i \in 1..n : v[i] \in Nat
        BY <2>4
      <3>2. \A i \in 1..n : u[i] \in Nat
        BY <2>6, <3>1
      <3> HIDE DEF u
      <3>3. u = [i \in 1..n |-> u[i]]
        BY DEF u
      <3>. QED
        BY <3>2, <3>3, <2>1
    <2> HIDE DEF u
    <2>8. u = v
      BY <2>4, <2>6, <2>7, SameSequence
    <2>. QED
      BY <2>2, <2>8 DEF t, n, v
  <1>. QED
    BY <1>1, <1>2, <1>3

(* The last bar of the window is the last bar.                             *)
LEMMA LastBarIs ==
    ASSUME NEW s \in Seq(FedBars), s # <<>>, NEW n \in Nat \ {0}
    PROVE  Kept(s, n) # <<>> /\ Kept(s, n)[Len(Kept(s, n))] = s[Len(s)] /\ s[Len(s)] \in FedBars
  <1>1. /\ Kept(s, n) \in Seq(FedBars)
        /\ Len(Kept(s, n)) = IF Len(s) <= n THEN Len(s) ELSE n
    BY KeptIs
  <1>2. \A i \in 1..Len(Kept(s, n)) : Kept(s, n)[i] = s[Len(s) - Len(Kept(s, n)) + i]
    BY KeptIs
  <1>3. Len(s) \in Nat /\ Len(s) > 0
    OBVIOUS
  <1> DEFINE k == Len(Kept(s, n))
  <1>4. k \in 1..Len(s)
    BY <1>1, <1>3
  <1>5. Kept(s, n)[k] = s[Len(s) - k + k]
    BY <1>2, <1>4
  <1> HIDE DEF k
  <1>6. Len(s) - k + k = Len(s)
    BY <1>3, <1>4
  <1>7. Kept(s, n) # <<>>
    BY <1>4, <1>3, <1>1 DEF k
  <1>. QED
    BY <1>3, <1>5, <1>6, <1>7 DEF k

(* The calculator's windows follow the bars.                               *)
LEMMA TechnicalKeeps ==
    ASSUME fed \in Seq(FedBars), WindowsAre, NEW b \in FedBars, UpdateTechnical(b),
           fed' = Append(fed, b)
    PROVE  /\ window' = Kept(fed', LongestPeriod + Spare)
           /\ ranges' = Kept(AllRanges(fed'), AtrPeriod)
  <1>1. LongestPeriod + Spare \in Nat \ {0} /\ AtrPeriod \in Nat \ {0}
    BY IndicatorNumbers
  <1>2. window' = Kept(fed', LongestPeriod + Spare)
    BY <1>1, KeptGrows DEF WindowsAre, UpdateTechnical
  <1>3. CASE fed = <<>>
    <2>1. AllRanges(fed') = <<>> /\ AllRanges(fed) = <<>>
      BY <1>3, RangesGrow
    <2>2. window = <<>>
      BY <1>1, <1>3 DEF WindowsAre, Kept
    <2>. QED
      BY <1>2, <2>1, <2>2 DEF WindowsAre, UpdateTechnical
  <1>4. CASE fed # <<>>
    <2>1. window # <<>> /\ window[Len(window)] = fed[Len(fed)] /\ fed[Len(fed)] \in FedBars
      BY <1>1, <1>4, LastBarIs DEF WindowsAre
    <2> DEFINE r == TrueRange(b, fed[Len(fed)].close)
    <2>2. r \in Nat
      BY <2>1, FedBarIs, TrueRangeIs
    <2>3. AllRanges(fed) \in Seq(Nat) /\ AllRanges(fed') = Append(AllRanges(fed), r)
      BY <1>4, RangesGrow
    <2>4. ranges' = Append1(ranges, r, AtrPeriod)
      BY <2>1 DEF UpdateTechnical
    <2> HIDE DEF r
    <2>5. Append1(Kept(AllRanges(fed), AtrPeriod), r, AtrPeriod) = Kept(Append(AllRanges(fed), r), AtrPeriod)
      BY <1>1, <2>2, <2>3, KeptGrows
    <2>. QED
      BY <1>2, <2>3, <2>4, <2>5 DEF WindowsAre
  <1>. QED
    BY <1>3, <1>4

SteadyAt(s, i) == \A j \in i - Smoothing + 1..i : s[j] = s[i]
SteadyEnds(s) == {i \in Smoothing..Len(s) : SteadyAt(s, i)}

(* A regime is steady when the last Smoothing ones of all are the same.    *)
LEMMA SteadyIs ==
    ASSUME NEW S, NEW s \in Seq(S), s # <<>>
    PROVE  Steady(Kept(s, 10)) <=> Len(s) \in SteadyEnds(s)
  <1> DEFINE t == Kept(s, 10)
             n == Len(s)
             k == Len(t)
  <1>1. Smoothing \in Nat /\ Smoothing > 0 /\ Smoothing <= 10
    BY IndicatorNumbers
  <1>2. n \in Nat /\ n > 0
    OBVIOUS
  <1>0. PICK ten \in Nat : ten = 10
    OBVIOUS
  <1>3. t \in Seq(S) /\ k = IF n <= 10 THEN n ELSE 10
    <2>1. /\ Kept(s, ten) \in Seq(S)
          /\ Len(Kept(s, ten)) = IF Len(s) <= ten THEN Len(s) ELSE ten
      BY KeptIs
    <2>. QED
      BY <2>1, <1>0
  <1>4. \A i \in 1..k : t[i] = s[n - k + i]
    <2>1. \A i \in 1..Len(Kept(s, ten)) : Kept(s, ten)[i] = s[Len(s) - Len(Kept(s, ten)) + i]
      BY KeptIs
    <2>. QED
      BY <2>1, <1>0
  <1>5. k \in Nat /\ k > 0 /\ t[k] = s[n]
    <2> HIDE DEF n, k
    <2>1. k \in 1..n
      BY <1>2, <1>3
    <2>2. t[k] = s[n - k + k]
      BY <1>4, <2>1
    <2>3. n - k + k = n
      BY <2>1, <1>2
    <2>. QED
      BY <2>1, <2>2, <2>3
  <1>6. CASE n < Smoothing
    BY <1>6, <1>1, <1>2, <1>3 DEF Steady, SteadyEnds
  <1>7. CASE n >= Smoothing
    <2>1. k >= Smoothing
      BY <1>7, <1>1, <1>2, <1>3
    <2> DEFINE u == Kept(t, Smoothing)
    <2>2. u = Kept(s, Smoothing)
      BY <1>1, KeptOfKept
    <2>3. Kept(s, Smoothing) \in Seq(S) /\ Len(Kept(s, Smoothing)) = IF n <= Smoothing THEN n ELSE Smoothing
      BY <1>1, KeptIs
    <2>4. \A i \in 1..Len(Kept(s, Smoothing)) :
             Kept(s, Smoothing)[i] = s[n - Len(Kept(s, Smoothing)) + i]
      BY <1>1, KeptIs
    <2>5. Len(Kept(s, Smoothing)) = Smoothing
      BY <2>3, <1>7, <1>1, <1>2
    <2>6. DOMAIN u = 1..Smoothing /\ \A i \in 1..Smoothing : u[i] = s[n - Smoothing + i]
      BY <2>2, <2>3, <2>4, <2>5
    <2> HIDE DEF u
    <2>7. (\A r \in Range(u) : r = s[n]) <=> \A i \in 1..Smoothing : s[n - Smoothing + i] = s[n]
      BY <2>6 DEF Range
    <2>8. (\A i \in 1..Smoothing : s[n - Smoothing + i] = s[n])
            <=> \A j \in n - Smoothing + 1..n : s[j] = s[n]
      <3> HIDE DEF n
      <3>1. ASSUME \A i \in 1..Smoothing : s[n - Smoothing + i] = s[n], NEW j \in n - Smoothing + 1..n
            PROVE  s[j] = s[n]
        <4>1. j - (n - Smoothing) \in 1..Smoothing /\ n - Smoothing + (j - (n - Smoothing)) = j
          BY <1>1, <1>2
        <4>. QED
          BY <3>1, <4>1
      <3>2. ASSUME \A j \in n - Smoothing + 1..n : s[j] = s[n], NEW i \in 1..Smoothing
            PROVE  s[n - Smoothing + i] = s[n]
        <4>1. n - Smoothing + i \in n - Smoothing + 1..n
          BY <1>1, <1>2
        <4>. QED
          BY <3>2, <4>1
      <3>. QED
        BY <3>1, <3>2
    <2>9. Steady(t) <=> \A r \in Range(u) : r = t[k]
      BY <2>1 DEF Steady, u
    <2>10. n \in Smoothing..n
      BY <1>1, <1>2, <1>7
    <2>11. n \in SteadyEnds(s) <=> \A j \in n - Smoothing + 1..n : s[j] = s[n]
      BY <2>10 DEF SteadyEnds, SteadyAt
    <2>. QED
      BY <1>5, <2>7, <2>8, <2>9, <2>11
  <1>. QED
    BY <1>6, <1>7, <1>1, <1>2

(* The confirmed regime, of what is steady so far.                         *)
LEMMA ConfirmedIs ==
    RegimeConfirmed <=>
      detector.confirmed = IF SteadyEnds(raws) = {} THEN "MEDIUM" ELSE raws[Max(SteadyEnds(raws))]
  BY DEF RegimeConfirmed, SteadyEnds, SteadyAt

(* What is steady stays so, and the new regime comes last.                 *)
LEMMA SteadyGrows ==
    ASSUME NEW S, NEW s \in Seq(S), NEW x \in S
    PROVE  LET t == Append(s, x)
           IN  /\ Len(s) + 1 \notin SteadyEnds(t) => SteadyEnds(t) = SteadyEnds(s)
               /\ Len(s) + 1 \in SteadyEnds(t) => Max(SteadyEnds(t)) = Len(s) + 1
               /\ SteadyEnds(s) # {} => Max(SteadyEnds(s)) \in 1..Len(s)
  <1> DEFINE t == Append(s, x)
             n == Len(s)
  <1>1. Smoothing \in Nat /\ Smoothing > 0
    BY IndicatorNumbers
  <1>2. n \in Nat /\ Len(t) = n + 1 /\ \A i \in 1..n : t[i] = s[i]
    OBVIOUS
  <1> HIDE DEF t, n
  <1>3. SteadyEnds(t) \subseteq 0..n + 1
    BY <1>1, <1>2 DEF SteadyEnds
  <1>4. SteadyEnds(s) \subseteq 0..n /\ SteadyEnds(s) \subseteq 1..n
    BY <1>1, <1>2 DEF SteadyEnds, n
  <1>5. ASSUME n + 1 \in SteadyEnds(t)
        PROVE  Max(SteadyEnds(t)) = n + 1
    <2>0. n + 1 \in Nat
      BY <1>2
    <2>1. Max(SteadyEnds(t)) \in SteadyEnds(t)
      BY <2>0, <1>3, <1>5, GreatestIs
    <2>2. n + 1 <= Max(SteadyEnds(t))
      BY <2>0, <1>3, <1>5, GreatestIs
    <2>. QED
      BY <2>1, <2>2, <1>2, <1>3
  <1>6. SteadyEnds(s) # {} => Max(SteadyEnds(s)) \in 1..n
    BY <1>2, <1>4, GreatestIs
  <1>7. ASSUME n + 1 \notin SteadyEnds(t)
        PROVE  SteadyEnds(t) = SteadyEnds(s)
    <2>1. ASSUME NEW i \in Smoothing..n
          PROVE  SteadyAt(t, i) <=> SteadyAt(s, i)
      <3>1. i \in 1..n /\ \A j \in i - Smoothing + 1..i : j \in 1..n
        BY <1>1, <1>2
      <3>. QED
        BY <3>1, <1>2 DEF SteadyAt
    <2>2. \A i \in Smoothing..Len(t) : i = n + 1 \/ i \in Smoothing..n
      BY <1>1, <1>2
    <2>3. \A i \in Smoothing..n : i \in Smoothing..Len(t)
      BY <1>1, <1>2
    <2>4. n = Len(s)
      BY DEF n
    <2>5. SteadyEnds(t) \subseteq SteadyEnds(s)
      BY <1>7, <2>1, <2>2, <2>4 DEF SteadyEnds
    <2>6. SteadyEnds(s) \subseteq SteadyEnds(t)
      BY <2>1, <2>3, <2>4 DEF SteadyEnds
    <2>. QED
      BY <2>5, <2>6
  <1>. QED
    BY <1>5, <1>6, <1>7 DEF t, n

(* The detector follows the bars and their regimes.                        *)
LEMMA DetectorFollows ==
    ASSUME IndicatorsInv, NEW b \in FedBars, NEW hv, UpdateDetector(b, hv),
           fed' = Append(fed, b)
    PROVE  /\ detector'.bars = Kept(fed', DetectorKeeps)
           /\ detector'.regimes = Kept(raws', 10)
           /\ raws' \in Seq({"LOW", "MEDIUM", "HIGH"})
           /\ RegimeConfirmed'
  <1> DEFINE S == {"LOW", "MEDIUM", "HIGH"}
             bars == Append1(detector.bars, b, DetectorKeeps)
             atrs == IF DetectorAtr(bars) > 0 THEN Append1(detector.atrs, DetectorAtr(bars), RankKeeps)
                     ELSE detector.atrs
             regime == Regime(bars, atrs, hv)
             regimes == Append1(detector.regimes, regime, 10)
  <1>1. /\ detector' = [bars |-> bars, atrs |-> atrs, regimes |-> regimes,
                        confirmed |-> IF Steady(regimes) THEN regime ELSE detector.confirmed]
        /\ raws' = Append(raws, regime)
    BY DEF UpdateDetector
  <1>2. regime \in S
    BY DEF Regime
  <1>3. bars = Kept(fed', DetectorKeeps)
    <2>1. fed \in Seq(FedBars) /\ DetectorKeeps \in Nat /\ detector.bars = Kept(fed, DetectorKeeps)
      BY IndicatorNumbers DEF IndicatorsInv, WindowsAre
    <2>. QED
      BY <2>1, KeptGrows
  <1> HIDE DEF atrs, bars, regime
  <1>4. raws \in Seq(S) /\ detector.regimes = Kept(raws, 10)
    BY DEF IndicatorsInv, WindowsAre
  <1>5. raws' \in Seq(S) /\ raws' # <<>> /\ Len(raws') = Len(raws) + 1
        /\ raws'[Len(raws) + 1] = regime /\ \A i \in 1..Len(raws) : raws'[i] = raws[i]
    BY <1>1, <1>2, <1>4
  <1>6. regimes = Kept(raws', 10)
    <2>1. 10 \in Nat
      OBVIOUS
    <2>. QED
      BY <2>1, <1>1, <1>2, <1>4, KeptGrows
  <1> HIDE DEF regimes, S
  <1>7. detector'.bars = bars /\ detector'.regimes = regimes
        /\ detector'.confirmed = IF Steady(regimes) THEN regime ELSE detector.confirmed
    BY <1>1
  <1>8. Steady(regimes) <=> Len(raws) + 1 \in SteadyEnds(raws')
    BY <1>5, <1>6, SteadyIs
  <1>9. /\ Len(raws) + 1 \notin SteadyEnds(raws') => SteadyEnds(raws') = SteadyEnds(raws)
        /\ Len(raws) + 1 \in SteadyEnds(raws') => Max(SteadyEnds(raws')) = Len(raws) + 1
        /\ SteadyEnds(raws) # {} => Max(SteadyEnds(raws)) \in 1..Len(raws)
    BY <1>1, <1>2, <1>4, SteadyGrows
  <1>10. detector.confirmed =
            IF SteadyEnds(raws) = {} THEN "MEDIUM" ELSE raws[Max(SteadyEnds(raws))]
    BY ConfirmedIs DEF IndicatorsInv
  <1>11. detector'.confirmed =
            IF SteadyEnds(raws') = {} THEN "MEDIUM" ELSE raws'[Max(SteadyEnds(raws'))]
    <2>1. CASE Steady(regimes)
      BY <2>1, <1>5, <1>7, <1>8, <1>9
    <2>2. CASE ~Steady(regimes)
      BY <2>2, <1>5, <1>7, <1>8, <1>9, <1>10
    <2>. QED
      BY <2>1, <2>2
  <1>12. RegimeConfirmed' <=>
            detector'.confirmed =
              IF SteadyEnds(raws') = {} THEN "MEDIUM" ELSE raws'[Max(SteadyEnds(raws'))]
    BY DEF RegimeConfirmed, SteadyEnds, SteadyAt
  <1>. QED
    BY <1>3, <1>5, <1>6, <1>7, <1>11, <1>12 DEF S

(* A sum of what is not negative is not.                                   *)
LEMMA SumNotNegative ==
    ASSUME NEW D, IsFiniteSet(D), NEW f, \A x \in D : f[x] \in Nat
    PROVE  SumFunctionOnSet(f, D) \in Nat
  <1> DEFINE Bad == {n \in Nat : \E T \in SUBSET D :
                        Cardinality(T) = n /\ SumFunctionOnSet(f, T) \notin Nat}
  <1>1. ASSUME Bad # {}
        PROVE  FALSE
    <2>1. PICK n \in Bad : \A m \in Bad : n <= m
      <3>1. Bad \in SUBSET Nat
        OBVIOUS
      <3> HIDE DEF Bad
      <3>. QED
        BY <1>1, <3>1, LeastIs
    <2>2. PICK T \in SUBSET D : Cardinality(T) = n /\ SumFunctionOnSet(f, T) \notin Nat
      BY <2>1
    <2>3. IsFiniteSet(T) /\ (\A x \in T : f[x] \in Int) /\ n \in Nat
      BY <2>1, <2>2, FS_Subset
    <2>4. T # {}
      <3>1. T = {} => SumFunctionOnSet(f, T) = 0
        BY <2>3, SumRule
      <3>. QED
        BY <3>1, <2>2
    <2>5. PICK x \in T : TRUE
      BY <2>4
    <2>6. SumFunctionOnSet(f, T) = f[x] + SumFunctionOnSet(f, T \ {x})
      BY <2>3, <2>5, SumRule
    <2>7. T \ {x} \in SUBSET D /\ Cardinality(T \ {x}) = n - 1 /\ n - 1 \in Nat
      <3>1. Cardinality(T \ {x}) = Cardinality(T) - 1 /\ Cardinality(T \ {x}) \in Nat
        BY <2>3, <2>5, FS_RemoveElement, FS_CardinalityType, FS_Subset
      <3>. QED
        BY <3>1, <2>2
    <2>8. n - 1 \notin Bad
      <3> HIDE DEF Bad
      <3>. QED
        BY <2>1, <2>3
    <2>9. SumFunctionOnSet(f, T \ {x}) \in Nat
      BY <2>7, <2>8
    <2>. QED
      BY <2>2, <2>6, <2>9
  <1>2. Cardinality(D) \in Nat
    BY FS_CardinalityType
  <1>. QED
    BY <1>1, <1>2

(* The sum over a sequence is one over its domain.                         *)
LEMMA SequenceSumIs ==
    ASSUME NEW s
    PROVE  Sum(s) = SumFunctionOnSet(s, DOMAIN s)
  BY DEF Sum, FoldFunction, SumFunctionOnSet

(* The indices of a sequence are finitely many.                            *)
LEMMA IndicesFinite ==
    ASSUME NEW S, NEW s \in Seq(S)
    PROVE  IsFiniteSet(DOMAIN s) /\ DOMAIN s = 1..Len(s) /\ Cardinality(DOMAIN s) = Len(s)
  <1>1. DOMAIN s = 1..Len(s) /\ Len(s) \in Nat
    OBVIOUS
  <1>. QED
    BY <1>1, FS_Interval

(* The ranges of what is kept of the bars are the last of all ranges.      *)
LEMMA RangesOfKept ==
    ASSUME NEW s \in Seq(FedBars), NEW n \in Nat \ {0}
    PROVE  AllRanges(Kept(s, n)) = Kept(AllRanges(s), n - 1)
  <1> DEFINE t == Kept(s, n)
             r == AllRanges(s)
             u == AllRanges(t)
             v == Kept(r, n - 1)
             Ls == Len(s)
             Lt == Len(t)
             Lr == Len(r)
             Lu == Len(u)
             Lv == Len(v)
  <1>1. t \in Seq(FedBars) /\ Lt = (IF Ls <= n THEN Ls ELSE n) /\ Ls \in Nat
    BY KeptIs
  <1>2. \A i \in 1..Lt : t[i] = s[Ls - Lt + i]
    BY KeptIs
  <1>3. PICK b : b \in FedBars \/ s = <<>>
    OBVIOUS
  <1>4. CASE s = <<>>
    <2>1. t = <<>> /\ 1..Ls - 1 = {} /\ 1..Lt - 1 = {} /\ Lt = 0
      BY <1>4, <1>1
    <2>2. r = <<>> /\ u = <<>>
      <3>1. Len(t) - 1 = Lt - 1
        OBVIOUS
      <3>2. r = <<>>
        <4>1. r = [i \in 1..Ls - 1 |-> TrueRange(s[i + 1], s[i].close)]
          BY DEF AllRanges
        <4> HIDE DEF Ls, r
        <4>. QED
          BY <4>1, <2>1
      <3>3. u = [i \in 1..Len(t) - 1 |-> TrueRange(t[i + 1], t[i].close)]
        BY DEF AllRanges
      <3> HIDE DEF t, u
      <3>. QED
        BY <2>1, <3>2, <3>3
    <2> HIDE DEF r, t
    <2>3. v = <<>>
      <3>1. Len(r) <= n - 1
        BY <2>2
      <3>. QED
        BY <3>1, <2>2 DEF Kept
    <2>. QED
      BY <2>2, <2>3 DEF r, t
  <1>5. CASE s # <<>>
    <2>0. Ls > 0 /\ t # <<>> /\ s[1] \in FedBars
      BY <1>5, <1>1
    <2>1. r \in Seq(Nat) /\ Lr = Ls - 1
      BY <1>5, <2>0, RangesGrow
    <2>2. u \in Seq(Nat) /\ Lu = Lt - 1
      BY <1>1, <2>0, RangesGrow
    <2>3. \A i \in 1..Ls - 1 : r[i] = TrueRange(s[i + 1], s[i].close)
      BY DEF AllRanges
    <2>4. \A i \in 1..Lt - 1 : u[i] = TrueRange(t[i + 1], t[i].close)
      BY DEF AllRanges
    <2>5. PICK m \in Nat : m = n - 1
      OBVIOUS
    <2>6. /\ Kept(r, m) \in Seq(Nat)
          /\ Len(Kept(r, m)) = IF Len(r) <= m THEN Len(r) ELSE m
          /\ \A i \in 1..Len(Kept(r, m)) : Kept(r, m)[i] = r[Len(r) - Len(Kept(r, m)) + i]
      <3>1. r \in Seq(Nat)
        BY <2>1
      <3> HIDE DEF r
      <3>. QED
        BY <3>1, KeptIs
    <2>7. \A i \in 1..Len(Kept(r, m)) : Kept(r, m)[i] = r[Len(r) - Len(Kept(r, m)) + i]
      BY <2>6
    <2>8. v \in Seq(Nat) /\ Lv = (IF Lr <= m THEN Lr ELSE m) /\ v = Kept(r, m)
      BY <2>5, <2>6
    <2>9. \A i \in 1..Lv : v[i] = r[Lr - Lv + i]
      BY <2>7, <2>8
    <2> HIDE DEF t, r, u, v, Ls, Lt, Lr, Lu, Lv
    <2>10. Lu = Lv /\ Lu \in Nat /\ Lr \in Nat /\ Lt \in Nat
      BY <2>0, <2>1, <2>2, <2>5, <2>8, <1>1
    <2>11. ASSUME NEW i \in 1..Lu
           PROVE  u[i] = v[i]
      <3>1. v[i] = r[Lr - Lv + i]
        BY <2>9, <2>10
      <3>2. Lr - Lv + i \in 1..Ls - 1
        BY <2>0, <2>1, <2>2, <2>8, <2>10, <1>1
      <3>3. v[i] = TrueRange(s[Lr - Lv + i + 1], s[Lr - Lv + i].close)
        BY <3>1, <3>2, <2>3
      <3>4. i \in 1..Lt /\ i + 1 \in 1..Lt /\ i \in 1..Lt - 1
        BY <2>2, <2>10
      <3>5. u[i] = TrueRange(s[Ls - Lt + (i + 1)], s[Ls - Lt + i].close)
        BY <3>4, <2>4, <1>2
      <3>6. Lr - Lv + i + 1 = Ls - Lt + (i + 1) /\ Lr - Lv + i = Ls - Lt + i
        BY <2>1, <2>2, <2>10, <1>1
      <3>. QED
        BY <3>3, <3>5, <3>6
    <2>12. u = v
      BY <2>2, <2>8, <2>10, <2>11, SameSequence DEF Lu, Lv
    <2>. QED
      BY <2>12 DEF t, r, u, v
  <1>. QED
    BY <1>4, <1>5

(* The detector's ATR is that of the last ranges.                          *)
LEMMA DetectorAtrIs ==
    ASSUME NEW s \in Seq(FedBars)
    PROVE  /\ Len(s) < AtrPeriod + 1 => DetectorAtr(s) = 0
           /\ Len(s) >= AtrPeriod + 1 =>
                /\ DetectorAtr(s) = Sum(Kept(AllRanges(s), AtrPeriod))
                /\ Len(Kept(AllRanges(s), AtrPeriod)) = AtrPeriod
                /\ DetectorAtr(s) \in Nat
  <1>1. AtrPeriod \in Nat /\ AtrPeriod > 0
    BY IndicatorNumbers
  <1>2. Len(s) < AtrPeriod + 1 => DetectorAtr(s) = 0
    BY DEF DetectorAtr
  <1>3. ASSUME Len(s) >= AtrPeriod + 1
        PROVE  /\ DetectorAtr(s) = Sum(Kept(AllRanges(s), AtrPeriod))
               /\ Len(Kept(AllRanges(s), AtrPeriod)) = AtrPeriod
               /\ DetectorAtr(s) \in Nat
    <2> DEFINE p == AtrPeriod
               n == Len(s)
               r == AllRanges(s)
               v == Kept(r, p)
               u == [k \in 1..p |-> TrueRange(s[n - p + k], s[n - p + k - 1].close)]
    <2>1. n \in Nat /\ n >= p + 1 /\ s # <<>>
      BY <1>1, <1>3
    <2>2. s[1] \in FedBars
      BY <2>1
    <2>3. r \in Seq(Nat) /\ Len(r) = n - 1
      BY <2>1, <2>2, RangesGrow
    <2>4. \A i \in 1..n - 1 : r[i] = TrueRange(s[i + 1], s[i].close)
      BY DEF AllRanges
    <2>5. v \in Seq(Nat) /\ Len(v) = p
      <3>1. v \in Seq(Nat) /\ Len(v) = IF Len(r) <= p THEN Len(r) ELSE p
        <4>1. r \in Seq(Nat) /\ p \in Nat
          BY <1>1, <2>3
        <4> HIDE DEF r, p
        <4>. QED
          BY <4>1, KeptIs
      <3>. QED
        BY <3>1, <2>1, <2>3, <1>1
    <2>6. \A i \in 1..p : v[i] = r[n - 1 - p + i]
      <3>1. \A i \in 1..Len(v) : v[i] = r[Len(r) - Len(v) + i]
        <4>1. r \in Seq(Nat) /\ p \in Nat
          BY <1>1, <2>3
        <4> HIDE DEF r, p
        <4>. QED
          BY <4>1, KeptIs
      <3> HIDE DEF v, r, n
      <3>. QED
        BY <3>1, <2>3, <2>5
    <2>7. DetectorAtr(s) = Sum(u)
      BY <1>3, <1>1 DEF DetectorAtr
    <2> HIDE DEF v, r, n
    <2>8. ASSUME NEW k \in 1..p
          PROVE  u[k] = v[k]
      <3>1. n - 1 - p + k \in 1..n - 1
        BY <1>1, <2>1
      <3>2. v[k] = TrueRange(s[n - 1 - p + k + 1], s[n - 1 - p + k].close)
        BY <3>1, <2>4, <2>6
      <3>3. u[k] = TrueRange(s[n - p + k], s[n - p + k - 1].close)
        BY <2>8
      <3>4. n - 1 - p + k + 1 = n - p + k /\ n - 1 - p + k = n - p + k - 1
        BY <1>1, <2>1
      <3>. QED
        BY <3>2, <3>3, <3>4
    <2>9. u \in Seq(Nat) /\ Len(u) = p
      <3>1. \A k \in 1..p : v[k] \in Nat
        BY <2>5
      <3>2. \A k \in 1..p : u[k] \in Nat
        BY <2>8, <3>1
      <3> HIDE DEF u
      <3>3. u = [k \in 1..p |-> u[k]]
        BY DEF u
      <3>. QED
        BY <3>2, <3>3, <1>1
    <2> HIDE DEF u
    <2>10. u = v
      BY <2>5, <2>8, <2>9, SameSequence
    <2>11. Sum(v) \in Nat
      <3>1. Sum(v) = SumFunctionOnSet(v, DOMAIN v)
        BY SequenceSumIs
      <3>2. IsFiniteSet(DOMAIN v) /\ DOMAIN v = 1..Len(v)
        BY <2>5, IndicesFinite
      <3>3. \A x \in DOMAIN v : v[x] \in Nat
        BY <2>5, <3>2
      <3>. QED
        BY <3>1, <3>2, <3>3, SumNotNegative
    <2>. QED
      BY <2>5, <2>7, <2>10, <2>11 DEF v, r
  <1>. QED
    BY <1>2, <1>3

(* The ATR of a window that is long enough is that of all bars.            *)
LEMMA AtrOfKept ==
    ASSUME NEW s \in Seq(FedBars), NEW n \in Nat, n > AtrPeriod
    PROVE  DetectorAtr(Kept(s, n)) = DetectorAtr(s)
  <1> DEFINE t == Kept(s, n)
             p == AtrPeriod
  <1>1. AtrPeriod \in Nat /\ AtrPeriod > 0
    BY IndicatorNumbers
  <1>2. t \in Seq(FedBars) /\ Len(t) = (IF Len(s) <= n THEN Len(s) ELSE n)
    BY KeptIs
  <1>3. AllRanges(t) = Kept(AllRanges(s), n - 1)
    BY <1>1, RangesOfKept
  <1>4. AllRanges(s) \in Seq(Nat)
    <2>1. CASE s = <<>>
      BY <2>1, <1>1 DEF AllRanges
    <2>2. CASE s # <<>>
      <3>1. s[1] \in FedBars
        BY <2>2
      <3>. QED
        BY <3>1, RangesGrow
    <2>. QED
      BY <2>1, <2>2
  <1>5. Kept(AllRanges(t), p) = Kept(AllRanges(s), p)
    <2>1. n - 1 \in Nat /\ p <= n - 1
      BY <1>1
    <2> HIDE DEF t
    <2>. QED
      BY <2>1, <1>1, <1>3, <1>4, KeptOfKept
  <1> HIDE DEF t
  <1>6. CASE Len(s) < p + 1
    <2>1. Len(t) < p + 1
      BY <1>6, <1>2, <1>1
    <2>. QED
      BY <2>1, <1>6, <1>2, DetectorAtrIs DEF t
  <1>7. CASE Len(s) >= p + 1
    <2>1. Len(t) >= p + 1
      BY <1>7, <1>2, <1>1
    <2>2. DetectorAtr(t) = Sum(Kept(AllRanges(t), p))
      BY <2>1, <1>2, DetectorAtrIs
    <2>3. DetectorAtr(s) = Sum(Kept(AllRanges(s), p))
      BY <1>7, DetectorAtrIs
    <2>. QED
      BY <2>2, <2>3, <1>5 DEF t
  <1>. QED
    BY <1>6, <1>7, <1>1, <1>2

(* A mean over a period that a window has room for is one over all bars.   *)
LEMMA SmaOfKept ==
    ASSUME NEW s \in Seq(FedBars), NEW n \in Nat, NEW p \in Nat, p <= n
    PROVE  Sma(Kept(s, n), p) = Sma(s, p)
  <1>1. Len(Kept(s, n)) = IF Len(s) <= n THEN Len(s) ELSE n
    BY KeptIs
  <1>2. Len(Kept(s, n)) < p <=> Len(s) < p
    <2>1. Len(s) \in Nat
      OBVIOUS
    <2>. QED
      BY <1>1, <2>1
  <1>3. Kept(Kept(s, n), p) = Kept(s, p)
    BY KeptOfKept
  <1>. QED
    BY <1>2, <1>3 DEF Sma

(* And so is a line of the cloud.                                          *)
LEMMA LineOfKept ==
    ASSUME NEW s \in Seq(FedBars), s # <<>>, NEW n \in Nat \ {0}, NEW p \in Nat, p <= n
    PROVE  Line(Kept(s, n), p) = Line(s, p)
  <1>1. Len(Kept(s, n)) = IF Len(s) <= n THEN Len(s) ELSE n
    BY KeptIs
  <1>2. Len(Kept(s, n)) < p <=> Len(s) < p
    <2>1. Len(s) \in Nat
      OBVIOUS
    <2>. QED
      BY <1>1, <2>1
  <1>3. Kept(Kept(s, n), p) = Kept(s, p)
    BY KeptOfKept
  <1>4. Kept(s, n)[Len(Kept(s, n))] = s[Len(s)]
    BY LastBarIs
  <1>. QED
    BY <1>2, <1>3, <1>4 DEF Line

(* The extremes of some bars.                                              *)
LEMMA ExtremesAre ==
    ASSUME NEW s \in Seq(FedBars), s # <<>>
    PROVE  /\ Highest(s) \in Nat /\ Lowest(s) \in Nat
           /\ \E i \in 1..Len(s) : Highest(s) = s[i].high
           /\ \E i \in 1..Len(s) : Lowest(s) = s[i].low
           /\ \A i \in 1..Len(s) : s[i].high <= Highest(s) /\ Lowest(s) <= s[i].low
  <1> DEFINE H == {s[i].high : i \in DOMAIN s}
             L == {s[i].low : i \in DOMAIN s}
  <1>1. DOMAIN s = 1..Len(s) /\ 1 \in DOMAIN s
    OBVIOUS
  <1>2. \A i \in DOMAIN s : s[i].high \in Nat /\ s[i].low \in Nat
    <2>1. \A i \in DOMAIN s : s[i] \in FedBars
      BY <1>1
    <2>. QED
      BY <2>1, FedBarIs
  <1>3. H \in SUBSET Nat /\ L \in SUBSET Nat /\ H # {} /\ L # {}
    BY <1>1, <1>2
  <1>4. IsFiniteSet(H)
    <2> DEFINE w == [i \in 1..Len(s) |-> s[i].high]
    <2>1. w \in Seq(H) /\ Len(w) = Len(s)
      BY <1>1
    <2>2. \A h \in H : \E i \in 1..Len(w) : w[i] = h
      BY <1>1, <2>1
    <2> HIDE DEF w, H
    <2>. QED
      BY <2>1, <2>2 DEF IsFiniteSet
  <1>5. Highest(s) = Max(H) /\ Lowest(s) = Min(L)
    BY DEF Highest, Lowest
  <1> HIDE DEF H, L
  <1>6. Max(H) \in H /\ \A x \in H : x <= Max(H)
    <2>1. H \in SUBSET Int
      BY <1>3
    <2>. QED
      BY <2>1, <1>3, <1>4, LastIs
  <1>7. Min(L) \in L /\ \A x \in L : Min(L) <= x
    BY <1>3, LeastIs
  <1>8. Max(H) \in Nat /\ Min(L) \in Nat
    BY <1>3, <1>6, <1>7
  <1>. QED
    BY <1>1, <1>5, <1>6, <1>7, <1>8 DEF H, L

(* A line of the cloud is within the extremes of at least as many bars.    *)
LEMMA LineInside ==
    ASSUME NEW s \in Seq(FedBars), s # <<>>, NEW n \in Nat \ {0}, NEW p \in Nat \ {0}, p <= n
    PROVE  LET bars == Kept(s, n)
           IN  /\ Line(s, p) \in 2 * Lowest(bars)..2 * Highest(bars)
               /\ Lowest(bars) \in Nat /\ Highest(bars) \in Nat
  <1> DEFINE bars == Kept(s, n)
             few == Kept(s, p)
             k == Len(bars)
             m == Len(few)
  <1>1. bars \in Seq(FedBars) /\ k = (IF Len(s) <= n THEN Len(s) ELSE n) /\ Len(s) \in Nat
    BY KeptIs
  <1>2. few \in Seq(FedBars) /\ m = (IF Len(s) <= p THEN Len(s) ELSE p)
    BY KeptIs
  <1>3. Kept(bars, p) = few
    BY KeptOfKept
  <1>4. bars # <<>> /\ bars[k] = s[Len(s)] /\ s[Len(s)] \in FedBars
    BY LastBarIs
  <1>5. few # <<>>
    BY LastBarIs
  <1>6. \A i \in 1..m : k - m + i \in 1..k /\ few[i] = bars[k - m + i]
    <2>1. bars \in Seq(FedBars)
      BY <1>1
    <2> HIDE DEF bars, few
    <2>2. \A i \in 1..Len(Kept(bars, p)) :
             /\ Len(bars) - Len(Kept(bars, p)) + i \in 1..Len(bars)
             /\ Kept(bars, p)[i] = bars[Len(bars) - Len(Kept(bars, p)) + i]
      BY <2>1, KeptIs
    <2>. QED
      BY <2>2, <1>3
  <1> HIDE DEF bars, few, k, m
  <1>7. /\ Highest(bars) \in Nat /\ Lowest(bars) \in Nat
        /\ \A i \in 1..k : bars[i].high <= Highest(bars) /\ Lowest(bars) <= bars[i].low
    BY <1>1, <1>4, ExtremesAre DEF k
  <1>8. Highest(few) \in Nat /\ Lowest(few) \in Nat
    BY <1>2, <1>5, ExtremesAre
  <1>9. PICK h \in 1..m : Highest(few) = few[h].high
    BY <1>2, <1>5, ExtremesAre DEF m
  <1>10. PICK l \in 1..m : Lowest(few) = few[l].low
    BY <1>2, <1>5, ExtremesAre DEF m
  <1>11. \A i \in 1..m : few[i].high <= Highest(bars) /\ Lowest(bars) <= few[i].low
    BY <1>6, <1>7
  <1>12. \A i \in 1..m : /\ few[i].high \in Nat /\ few[i].low \in Nat
                         /\ few[i].low <= few[i].high
    <2>1. \A i \in 1..m : few[i] \in FedBars
      BY <1>2 DEF m
    <2>2. \A b \in FedBars : b.high \in Nat /\ b.low \in Nat /\ b.low <= b.high
      BY FedBarIs
    <2>. QED
      BY <2>1, <2>2
  <1>13. Highest(few) + Lowest(few) \in 2 * Lowest(bars)..2 * Highest(bars)
    <2>1. /\ Highest(few) <= Highest(bars) /\ Lowest(bars) <= Lowest(few)
      BY <1>9, <1>10, <1>11
    <2>2. Lowest(few) <= Highest(bars) /\ Lowest(bars) <= Highest(few)
      <3>1. Lowest(few) <= few[l].high /\ few[l].high <= Highest(bars) /\ few[l].high \in Nat
        BY <1>10, <1>11, <1>12
      <3>2. Lowest(bars) <= few[h].low /\ few[h].low <= Highest(few) /\ few[h].low \in Nat
        BY <1>9, <1>11, <1>12
      <3>. QED
        BY <3>1, <3>2, <1>7, <1>8
    <2>. QED
      BY <2>1, <2>2, <1>7, <1>8
  <1>14. 2 * s[Len(s)].close \in 2 * Lowest(bars)..2 * Highest(bars)
    <2>1. k \in 1..k
      BY <1>1, <1>4 DEF k
    <2>2. Lowest(bars) <= bars[k].low /\ bars[k].high <= Highest(bars)
      BY <2>1, <1>7
    <2>. QED
      BY <2>2, <1>4, <1>7, FedBarIs
  <1>15. Line(s, p) = 2 * s[Len(s)].close \/ Line(s, p) = Highest(few) + Lowest(few)
    BY DEF Line, few
  <1>. QED
    BY <1>7, <1>13, <1>14, <1>15 DEF bars

(* Without bars nothing is kept.                                           *)
LEMMA EmptyIndicators ==
    ASSUME fed = <<>>, window = <<>>, ranges = <<>>, detector = NewDetector, raws = <<>>
    PROVE  IndicatorsInv
  <1>1. \A n \in Nat : Kept(<<>>, n) = <<>>
    BY DEF Kept
  <1>2. AllRanges(<<>>) = <<>>
    <2>1. 1..Len(<<>>) - 1 = {}
      OBVIOUS
    <2>. QED
      BY <2>1 DEF AllRanges
  <1>3. WindowsAre
    <2>1. Kept(<<>>, LongestPeriod + Spare) = <<>> /\ Kept(<<>>, AtrPeriod) = <<>>
          /\ Kept(<<>>, DetectorKeeps) = <<>> /\ Kept(<<>>, 10) = <<>>
      BY <1>1, IndicatorNumbers
    <2>. QED
      BY <1>2, <2>1 DEF WindowsAre, NewDetector
  <1>4. RegimeConfirmed
    <2>1. SteadyEnds(<<>>) = {}
      BY IndicatorNumbers DEF SteadyEnds
    <2>. QED
      BY <2>1, ConfirmedIs DEF NewDetector
  <1>. QED
    BY <1>3, <1>4 DEF IndicatorsInv

(* A bar and a reset keep the windows; nothing else changes them.          *)
LEMMA IndicatorsKeep == IndicatorsInv /\ [IndicatorsNext]_indicatorVars => IndicatorsInv'
  <1>. SUFFICES ASSUME IndicatorsInv, [IndicatorsNext]_indicatorVars
                PROVE  IndicatorsInv'
    OBVIOUS
  <1>1. CASE NewBar
    <2>1. PICK b \in FedBars, hv \in Percentiles :
             fed' = Append(fed, b) /\ UpdateTechnical(b) /\ UpdateDetector(b, hv)
      BY <1>1 DEF NewBar
    <2>2. /\ window' = Kept(fed', LongestPeriod + Spare)
          /\ ranges' = Kept(AllRanges(fed'), AtrPeriod)
      BY <2>1, TechnicalKeeps DEF IndicatorsInv
    <2>3. /\ detector'.bars = Kept(fed', DetectorKeeps)
          /\ detector'.regimes = Kept(raws', 10)
          /\ raws' \in Seq({"LOW", "MEDIUM", "HIGH"})
          /\ RegimeConfirmed'
      BY <2>1, DetectorFollows
    <2>4. fed' \in Seq(FedBars)
      BY <2>1 DEF IndicatorsInv
    <2>. QED
      BY <2>2, <2>3, <2>4 DEF IndicatorsInv, WindowsAre
  <1>2. CASE ResetIndicators
    <2>1. (fed = <<>> /\ window = <<>> /\ ranges = <<>> /\ detector = NewDetector /\ raws = <<>>)'
      BY <1>2 DEF ResetIndicators, NewDetector
    <2>2. (fed = <<>> /\ window = <<>> /\ ranges = <<>> /\ detector = NewDetector /\ raws = <<>>)'
             => IndicatorsInv'
      BY EmptyIndicators, PTL
    <2>. QED
      BY <2>1, <2>2
  <1>3. CASE UNCHANGED indicatorVars
    BY <1>3 DEF indicatorVars, IndicatorsInv, WindowsAre, RegimeConfirmed
  <1>. QED
    BY <1>1, <1>2, <1>3 DEF IndicatorsNext

(* What is kept is enough for all that is computed of it.                  *)
LEMMA IndicatorsFollow == IndicatorsInv => IndicatorsSound
  <1>. SUFFICES ASSUME IndicatorsInv
                PROVE  IndicatorsSound
    OBVIOUS
  <1> DEFINE N == LongestPeriod + Spare
  <1>1. /\ \A n \in {MaFast, MaSlow, AtrPeriod, Tenkan, Kijun, SenkouB, DetectorKeeps} :
             n \in Nat /\ n > 0
        /\ LongestPeriod \in Nat \ {0} /\ N \in Nat \ {0}
        /\ \A n \in {MaFast, MaSlow, Tenkan, Kijun, SenkouB} : n <= LongestPeriod /\ n <= N
        /\ AtrPeriod < MaSlow /\ AtrPeriod < DetectorKeeps
    <2>1. \A n \in {MaFast, MaSlow, AtrPeriod, Tenkan, Kijun, SenkouB, DetectorKeeps} :
             n \in Nat /\ n > 0
      BY IndicatorNumbers
    <2>2. /\ LongestPeriod \in Nat /\ Spare \in Nat /\ MaSlow \in Nat /\ MaSlow > 0
          /\ MaSlow <= LongestPeriod
      BY IndicatorNumbers
    <2>3. \A n \in {MaFast, MaSlow, Tenkan, Kijun, SenkouB} :
             n \in Nat /\ n <= LongestPeriod
      BY IndicatorNumbers
    <2>4. \A n \in {MaFast, MaSlow, Tenkan, Kijun, SenkouB} : n <= N
      <3>1. \A n \in Nat : n <= LongestPeriod => n <= N
        BY <2>2
      <3>. QED
        BY <2>3, <3>1, Zenon
    <2>5. LongestPeriod \in Nat \ {0} /\ N \in Nat \ {0}
      BY <2>2
    <2>6. AtrPeriod < MaSlow /\ AtrPeriod < DetectorKeeps
      BY IndicatorNumbers
    <2>. QED
      BY <2>1, <2>3, <2>4, <2>5, <2>6, Zenon
  <1>2. fed \in Seq(FedBars) /\ window = Kept(fed, N) /\ ranges = Kept(AllRanges(fed), AtrPeriod)
        /\ detector.bars = Kept(fed, DetectorKeeps)
    BY DEF IndicatorsInv, WindowsAre
  <1> HIDE DEF N
  <1>3. DetectorAtr(detector.bars) = DetectorAtr(fed)
    BY <1>1, <1>2, AtrOfKept
  <1>4. IsReady <=> Len(fed) >= MaSlow
    <2>1. Len(window) = IF Len(fed) <= N THEN Len(fed) ELSE N
      BY <1>1, <1>2, KeptIs
    <2>2. Len(fed) \in Nat
      BY <1>2
    <2>3. MaSlow \in Nat /\ MaSlow <= N /\ N \in Nat
      BY <1>1
    <2>. QED
      BY <2>1, <2>2, <2>3 DEF IsReady
  <1>5. WindowsSuffice
    <2>1. ASSUME fed # <<>>
          PROVE  SpanA(window) = SpanA(fed) /\ SpanB(window) = SpanB(fed)
      <3>1. \A p \in {Tenkan, Kijun, SenkouB} : Line(window, p) = Line(fed, p)
        BY <1>1, <1>2, <2>1, LineOfKept
      <3>. QED
        BY <3>1 DEF SpanA, SpanB
    <2>2. \A p \in {MaFast, MaSlow} : Sma(window, p) = Sma(fed, p)
      BY <1>1, <1>2, SmaOfKept
    <2>. QED
      BY <1>3, <1>4, <2>1, <2>2 DEF WindowsSuffice
  <1>6. OneAtr
    <2>1. ASSUME Len(fed) >= AtrPeriod + 1
          PROVE  /\ Atr = [sum |-> DetectorAtr(fed), of |-> AtrPeriod]
                 /\ DetectorAtr(fed) \in Nat
      <3>1. /\ DetectorAtr(fed) = Sum(ranges) /\ Len(ranges) = AtrPeriod
            /\ DetectorAtr(fed) \in Nat
        BY <1>2, <2>1, DetectorAtrIs
      <3>. QED
        BY <3>1 DEF Atr
    <2>2. Len(fed) < AtrPeriod + 1 => DetectorAtr(fed) = 0
      BY <1>2, DetectorAtrIs
    <2>3. Len(fed) \in Nat /\ AtrPeriod \in Nat /\ MaSlow \in Nat /\ AtrPeriod < MaSlow
      BY <1>1, <1>2
    <2>4. CASE Len(fed) >= AtrPeriod + 1
      <3>1. Atr.sum = DetectorAtr(fed)
        BY <2>1, <2>4
      <3>2. DetectorAtr(fed) > 0 \/ DetectorAtr(fed) = 0
        BY <2>1, <2>4
      <3>. QED
        BY <3>1, <3>2, <2>1, <2>4, <1>3 DEF OneAtr
    <2>5. CASE Len(fed) < AtrPeriod + 1
      <3>1. ~IsReady
        BY <1>4, <2>3, <2>5
      <3>2. ~(DetectorAtr(fed) > 0)
        BY <2>2, <2>5
      <3>. QED
        BY <3>1, <3>2, <1>3 DEF OneAtr
    <2>. QED
      BY <2>3, <2>4, <2>5
  <1>7. CloudInside
    <2>. SUFFICES ASSUME fed # <<>>
                  PROVE  LET bars == Kept(fed, LongestPeriod)
                         IN  /\ SpanA(window) \in 4 * Lowest(bars)..4 * Highest(bars)
                             /\ SpanB(window) \in 2 * Lowest(bars)..2 * Highest(bars)
      BY DEF CloudInside
    <2> DEFINE bars == Kept(fed, LongestPeriod)
               low == Lowest(bars)
               high == Highest(bars)
               a == Line(fed, Tenkan)
               b == Line(fed, Kijun)
               c == Line(fed, SenkouB)
    <2>1. /\ a \in 2 * low..2 * high /\ b \in 2 * low..2 * high
          /\ c \in 2 * low..2 * high /\ low \in Nat /\ high \in Nat
      BY <1>1, <1>2, LineInside
    <2>2. SpanA(window) = a + b /\ SpanB(window) = c
      BY <1>5 DEF WindowsSuffice, SpanA, SpanB
    <2> HIDE DEF low, high, a, b, c
    <2>3. a + b \in 4 * low..4 * high
      BY <2>1
    <2>. QED
      BY <2>1, <2>2, <2>3 DEF low, high
  <1>. QED
    BY <1>5, <1>6, <1>7 DEF IndicatorsSound, IndicatorsInv

-----------------------------------------------------------------------------
(* Half of a window                                                        *)

(* What holds of the empty set, and of a set if it holds of what is left   *)
(* without one of its elements, holds of every subset of a finite set.     *)
LEMMA SubsetsOneByOne ==
    ASSUME NEW D, IsFiniteSet(D), NEW P \in SUBSET (SUBSET D), {} \in P,
           \A T \in SUBSET D : T # {} /\ (\A x \in T : T \ {x} \in P) => T \in P
    PROVE  P = SUBSET D
  <1> DEFINE Bad == {n \in Nat : \E T \in SUBSET D : Cardinality(T) = n /\ T \notin P}
  <1>1. ASSUME Bad # {}
        PROVE  FALSE
    <2>1. PICK n \in Bad : \A m \in Bad : n <= m
      <3>1. Bad \in SUBSET Nat
        OBVIOUS
      <3> HIDE DEF Bad
      <3>. QED
        BY <1>1, <3>1, LeastIs
    <2>2. PICK T \in SUBSET D : Cardinality(T) = n /\ T \notin P
      BY <2>1
    <2>3. T # {} /\ IsFiniteSet(T) /\ n \in Nat
      BY <2>1, <2>2, FS_Subset
    <2>4. ASSUME NEW x \in T
          PROVE  T \ {x} \in P
      <3>1. Cardinality(T \ {x}) = n - 1 /\ Cardinality(T \ {x}) \in Nat
        BY <2>2, <2>3, FS_RemoveElement, FS_CardinalityType, FS_Subset
      <3>2. n - 1 \notin Bad
        <4> HIDE DEF Bad
        <4>. QED
          BY <2>1, <2>3
      <3>. QED
        BY <3>1, <3>2
    <2>. QED
      BY <2>2, <2>3, <2>4
  <1>2. ASSUME NEW T \in SUBSET D
        PROVE  T \in P
    <2>1. Cardinality(T) \in Nat
      BY FS_Subset, FS_CardinalityType
    <2>. QED
      BY <1>1, <2>1
  <1>. QED
    BY <1>2

(* On D, g is a linear function of q and f.                                *)
LinearOn(D, g, q, f, k1, k2, k3) ==
    /\ IsFiniteSet(D) /\ k1 \in Int /\ k2 \in Int /\ k3 \in Int
    /\ \A x \in D : f[x] \in Int /\ q[x] \in Int /\ g[x] \in Int
                  /\ g[x] = k1 * q[x] + k2 * f[x] + k3

SumsLinear(D, g, q, f, k1, k2, k3) ==
    SumFunctionOnSet(g, D) =
        k1 * SumFunctionOnSet(q, D) + k2 * SumFunctionOnSet(f, D) + k3 * Cardinality(D)

(* The sum of a linear function of two others.                             *)
LEMMA SumOfLinear ==
    ASSUME NEW D, NEW f, NEW q, NEW g, NEW k1, NEW k2, NEW k3,
           LinearOn(D, g, q, f, k1, k2, k3)
    PROVE  SumsLinear(D, g, q, f, k1, k2, k3)
  <1> DEFINE P == {T \in SUBSET D : SumFunctionOnSet(g, T) = k1 * SumFunctionOnSet(q, T)
                                     + k2 * SumFunctionOnSet(f, T) + k3 * Cardinality(T)}
  <1> USE DEF LinearOn
  <1>1. {} \in P
    <2>1. SumFunctionOnSet(g, {}) = 0 /\ SumFunctionOnSet(q, {}) = 0
          /\ SumFunctionOnSet(f, {}) = 0 /\ Cardinality({}) = 0
      BY SumRule, FS_EmptySet
    <2>. QED
      BY <2>1
  <1>2. ASSUME NEW T \in SUBSET D, T # {}, \A x \in T : T \ {x} \in P
        PROVE  T \in P
    <2>1. PICK x \in T : TRUE
      BY <1>2
    <2> DEFINE R == T \ {x}
    <2>2. IsFiniteSet(T) /\ IsFiniteSet(R) /\ x \in D /\ R \in SUBSET D
      BY <2>1, FS_Subset
    <2>3. /\ \A y \in T : f[y] \in Int /\ q[y] \in Int /\ g[y] \in Int
          /\ \A y \in R : f[y] \in Int /\ q[y] \in Int /\ g[y] \in Int
      OBVIOUS
    <2>4. PICK Sg \in Int : Sg = SumFunctionOnSet(g, R)
      BY <2>2, <2>3, SumRule
    <2>5. PICK Sq \in Int : Sq = SumFunctionOnSet(q, R)
      BY <2>2, <2>3, SumRule
    <2>6. PICK Sf \in Int : Sf = SumFunctionOnSet(f, R)
      BY <2>2, <2>3, SumRule
    <2>7. PICK n \in Int : n = Cardinality(R)
      BY <2>2, FS_CardinalityType
    <2>8. /\ SumFunctionOnSet(g, T) = g[x] + Sg /\ SumFunctionOnSet(q, T) = q[x] + Sq
          /\ SumFunctionOnSet(f, T) = f[x] + Sf
      BY <2>1, <2>2, <2>3, <2>4, <2>5, <2>6, SumRule
    <2>9. Cardinality(T) = n + 1
      <3>1. Cardinality(R) = Cardinality(T) - 1 /\ Cardinality(T) \in Int
        BY <2>1, <2>2, FS_RemoveElement, FS_CardinalityType
      <3>. QED
        BY <3>1, <2>7
    <2>10. Sg = k1 * Sq + k2 * Sf + k3 * n
      BY <1>2, <2>1, <2>4, <2>5, <2>6, <2>7
    <2>11. PICK gx, qx, fx \in Int : gx = g[x] /\ qx = q[x] /\ fx = f[x]
      BY <2>1, <2>3
    <2>12. gx = k1 * qx + k2 * fx + k3
      BY <2>2, <2>11
    <2> HIDE DEF P, R
    <2>13. gx + Sg = k1 * (qx + Sq) + k2 * (fx + Sf) + k3 * (n + 1)
      BY <2>10, <2>12
    <2>. QED
      BY <2>8, <2>9, <2>11, <2>13 DEF P
  <1>3. P \in SUBSET (SUBSET D)
    OBVIOUS
  <1>4. P = SUBSET D
    <2> HIDE DEF P
    <2>. QED
      BY <1>1, <1>2, <1>3, SubsetsOneByOne
  <1>5. D \in P
    BY <1>4
  <1>. QED
    BY <1>5 DEF SumsLinear

(* A sum of what is not negative, of which some are m at least.            *)
LEMMA SumOfLarge ==
    ASSUME NEW D, IsFiniteSet(D), NEW g, NEW m \in Nat, NEW A \in SUBSET D,
           \A x \in D : g[x] \in Nat,
           \A x \in A : g[x] >= m
    PROVE  SumFunctionOnSet(g, D) >= m * Cardinality(A)
  <1> DEFINE P == {T \in SUBSET D : SumFunctionOnSet(g, T) >= m * Cardinality(T \cap A)}
  <1>1. {} \in P
    <2>1. SumFunctionOnSet(g, {}) = 0 /\ Cardinality({}) = 0 /\ {} \cap A = {}
      BY SumRule, FS_EmptySet
    <2>. QED
      BY <2>1
  <1>2. ASSUME NEW T \in SUBSET D, T # {}, \A x \in T : T \ {x} \in P
        PROVE  T \in P
    <2>1. PICK x \in T : TRUE
      BY <1>2
    <2> DEFINE R == T \ {x}
    <2>2. /\ IsFiniteSet(T) /\ IsFiniteSet(R) /\ x \in D /\ R \in SUBSET D
          /\ IsFiniteSet(R \cap A)
      BY <2>1, FS_Subset
    <2>3. (\A y \in T : g[y] \in Int) /\ (\A y \in R : g[y] \in Int)
      OBVIOUS
    <2>4. PICK Sg \in Int : Sg = SumFunctionOnSet(g, R)
      BY <2>2, <2>3, SumRule
    <2>5. SumFunctionOnSet(g, T) = g[x] + Sg
      BY <2>1, <2>2, <2>3, <2>4, SumRule
    <2>6. PICK n \in Nat : n = Cardinality(R \cap A)
      BY <2>2, FS_CardinalityType
    <2>7. Sg >= m * n
      BY <1>2, <2>1, <2>4, <2>6
    <2>8. PICK gx \in Nat : gx = g[x]
      BY <2>2
    <2>9. CASE x \in A
      <3>1. T \cap A = (R \cap A) \cup {x} /\ x \notin R \cap A
        BY <2>1, <2>9
      <3>2. Cardinality(T \cap A) = n + 1
        BY <2>2, <2>6, <3>1, FS_AddElement
      <3>3. gx >= m
        BY <2>8, <2>9
      <3>4. gx + Sg >= m * (n + 1)
        BY <2>7, <3>3
      <3> HIDE DEF R
      <3>. QED
        BY <2>5, <2>8, <3>2, <3>4
    <2>10. CASE x \notin A
      <3>1. T \cap A = R \cap A
        BY <2>1, <2>10
      <3>2. gx + Sg >= m * n
        <4>1. m * n \in Int
          OBVIOUS
        <4>. QED
          BY <4>1, <2>7
      <3> HIDE DEF R
      <3>. QED
        BY <2>5, <2>6, <2>8, <3>1, <3>2
    <2>. QED
      BY <2>9, <2>10
  <1>3. P \in SUBSET (SUBSET D)
    OBVIOUS
  <1>4. P = SUBSET D
    <2> HIDE DEF P
    <2>. QED
      BY <1>1, <1>2, <1>3, SubsetsOneByOne
  <1>5. D \in P /\ D \cap A = A
    BY <1>4
  <1>. QED
    BY <1>5

(* The numbers of a sample: their sum, that of their squares.              *)
LEMMA SampleIs ==
    ASSUME NEW s \in Seq(Int), NEW p \in Int
    PROVE  \E Q \in Int :
             /\ SampleSum(s) \in Int
             /\ Q = SumFunctionOnSet([i \in DOMAIN s |-> s[i] * s[i]], DOMAIN s)
             /\ SampleSum(s) = SumFunctionOnSet(s, DOMAIN s)
             /\ Deviation(s, p) = Len(s) * p - SampleSum(s)
             /\ Spread(s) = Len(s) * Q - SampleSum(s) * SampleSum(s)
             /\ Deviation(s, p) \in Int /\ Spread(s) \in Int
  <1> DEFINE q == [i \in DOMAIN s |-> s[i] * s[i]]
             Q == SumFunctionOnSet(q, DOMAIN s)
  <1>1. SampleSum(s) = SumFunctionOnSet(s, DOMAIN s)
    BY DEF SampleSum, FoldFunction, SumFunctionOnSet
  <1>2. SampleSum(q) = Q
    <2>1. DOMAIN q = DOMAIN s
      OBVIOUS
    <2>2. SampleSum(q) = SumFunctionOnSet(q, DOMAIN q)
      BY DEF SampleSum, FoldFunction, SumFunctionOnSet
    <2> HIDE DEF q
    <2>. QED
      BY <2>1, <2>2
  <1>3. IsFiniteSet(DOMAIN s)
    BY IndicesFinite
  <1>4. /\ \A i \in DOMAIN s : s[i] \in Int
        /\ \A i \in DOMAIN s : q[i] \in Int
    OBVIOUS
  <1>5. Q \in Int /\ SampleSum(s) \in Int
    <2> HIDE DEF q
    <2>. QED
      BY <1>1, <1>3, <1>4, SumRule
  <1>6. Len(s) \in Int
    OBVIOUS
  <1>7. Deviation(s, p) = Len(s) * p - SampleSum(s)
    BY DEF Deviation
  <1>8. Spread(s) = Len(s) * Q - SampleSum(s) * SampleSum(s)
    BY <1>2 DEF Spread
  <1>9. Deviation(s, p) \in Int /\ Spread(s) \in Int
    <2> HIDE DEF Q, q
    <2>. QED
      BY <1>5, <1>6, <1>7, <1>8
  <1>. QED
    BY <1>1, <1>5, <1>7, <1>8, <1>9

(* Less than half of a sample lies on the far side of a value that is more *)
(* than one standard deviation from its mean.                              *)
LEMMA FarFromMean ==
    ASSUME NEW s \in Seq(Int), NEW p \in Int, NEW A \in SUBSET (DOMAIN s),
           Deviation(s, p) # 0,
           4 * Deviation(s, p) * Deviation(s, p) > 2 * 2 * Spread(s),
           \/ Deviation(s, p) < 0 /\ \A i \in A : s[i] <= p
           \/ Deviation(s, p) > 0 /\ \A i \in A : s[i] >= p
    PROVE  2 * Cardinality(A) < Len(s)
  <1>1. PICK Q \in Int :
             /\ SampleSum(s) \in Int
             /\ Q = SumFunctionOnSet([i \in DOMAIN s |-> s[i] * s[i]], DOMAIN s)
             /\ SampleSum(s) = SumFunctionOnSet(s, DOMAIN s)
             /\ Deviation(s, p) = Len(s) * p - SampleSum(s)
             /\ Spread(s) = Len(s) * Q - SampleSum(s) * SampleSum(s)
             /\ Deviation(s, p) \in Int /\ Spread(s) \in Int
    BY SampleIs
  <1>2. PICK n \in Nat : n = Len(s)
    OBVIOUS
  <1>3. PICK S \in Int : S = SampleSum(s)
    BY <1>1
  <1>4. PICK D \in Int : D = Deviation(s, p)
    BY <1>1
  <1>5. PICK R \in Int : R = Spread(s)
    BY <1>1
  <1>6. D = n * p - S /\ R = n * Q - S * S
    BY <1>1, <1>2, <1>3, <1>4, <1>5
  <1>7. PICK E \in Int : E = D * D
    OBVIOUS
  <1>8. D # 0 /\ E > R /\ E > 0
    <2>1. 4 * D * D > 2 * 2 * R /\ D # 0
      BY <1>4, <1>5
    <2>2. 4 * D * D = 4 * E
      BY <1>7
    <2>3. E > 0
      BY <1>7, <2>1
    <2>. QED
      BY <2>1, <2>2, <2>3
  <1>9. IsFiniteSet(DOMAIN s) /\ Cardinality(DOMAIN s) = n /\ DOMAIN s = 1..n
    BY <1>2, IndicesFinite
  <1> DEFINE c == D - S
             q == [i \in DOMAIN s |-> s[i] * s[i]]
             g == [i \in DOMAIN s |-> (n * s[i] + c) * (n * s[i] + c)]
  <1>10. \A i \in DOMAIN s : s[i] \in Int /\ q[i] = s[i] * s[i]
                             /\ g[i] = (n * s[i] + c) * (n * s[i] + c)
    OBVIOUS
  <1>11. c \in Int /\ Q = SumFunctionOnSet(q, DOMAIN s) /\ S = SumFunctionOnSet(s, DOMAIN s)
    BY <1>1, <1>3
  <1> HIDE DEF c, q, g
  <1>12. PICK G \in Int : G = SumFunctionOnSet(g, DOMAIN s)
    <2>1. \A i \in DOMAIN s : g[i] \in Int
      BY <1>10, <1>11
    <2>. QED
      BY <2>1, <1>9, SumRule
  <1>13. G = (n * n) * Q + (2 * n * c) * S + (c * c) * n
    <2>1. PICK k1, k2, k3 \in Int : k1 = n * n /\ k2 = 2 * n * c /\ k3 = c * c
      BY <1>11
    <2>2. \A i \in DOMAIN s : s[i] \in Int /\ q[i] \in Int /\ g[i] \in Int
                              /\ g[i] = k1 * q[i] + k2 * s[i] + k3
      <3>. SUFFICES ASSUME NEW i \in DOMAIN s
                    PROVE  s[i] \in Int /\ q[i] \in Int /\ g[i] \in Int
                           /\ g[i] = k1 * q[i] + k2 * s[i] + k3
        OBVIOUS
      <3>1. PICK v \in Int : v = s[i]
        BY <1>10
      <3>2. q[i] = v * v /\ g[i] = (n * v + c) * (n * v + c)
        BY <1>10, <3>1
      <3>3. (n * v + c) * (n * v + c) = (n * n) * (v * v) + (2 * n * c) * v + c * c
        BY <1>11
      <3>4. q[i] \in Int /\ g[i] \in Int
        BY <1>11, <3>2
      <3>. QED
        BY <2>1, <3>1, <3>2, <3>3, <3>4
    <2>3. SumsLinear(DOMAIN s, g, q, s, k1, k2, k3)
      <3>1. LinearOn(DOMAIN s, g, q, s, k1, k2, k3)
        BY <2>1, <2>2, <1>9 DEF LinearOn
      <3>. QED
        BY <3>1, SumOfLinear, Zenon
    <2>. QED
      BY <2>1, <2>3, <1>9, <1>11, <1>12 DEF SumsLinear
  <1>14. G = n * R + n * E
    <2>1. (n * n) * Q + (2 * n * (D - S)) * S + ((D - S) * (D - S)) * n
             = n * (n * Q - S * S) + n * (D * D)
      OBVIOUS
    <2>. QED
      BY <2>1, <1>6, <1>7, <1>13 DEF c
  <1>15. \A i \in DOMAIN s : g[i] \in Nat
    <2>. SUFFICES ASSUME NEW i \in DOMAIN s
                  PROVE  g[i] \in Nat
      OBVIOUS
    <2>1. PICK v \in Int : v = n * s[i] + c
      BY <1>10, <1>11
    <2>2. g[i] = v * v
      BY <1>10, <2>1
    <2>3. v * v \in Nat
      OBVIOUS
    <2>. QED
      BY <2>2, <2>3
  <1>16. \A i \in A : g[i] >= 4 * E
    <2>. SUFFICES ASSUME NEW i \in A
                  PROVE  g[i] >= 4 * E
      OBVIOUS
    <2>1. PICK x \in Int : x = s[i]
      BY <1>10
    <2>2. PICK v \in Int : v = n * x + (D - S)
      OBVIOUS
    <2>3. g[i] = v * v
      BY <1>10, <2>1, <2>2 DEF c
    <2>4. CASE D < 0
      <3>1. x <= p
        BY <1>4, <2>1, <2>4
      <3>2. n * x <= n * p
        BY <3>1
      <3>3. v <= 2 * D
        BY <3>2, <2>2, <1>6
      <3>4. (2 * D) * (2 * D) <= v * v
        BY <3>3, <2>4
      <3>. QED
        BY <3>4, <2>3, <1>7
    <2>5. CASE D > 0
      <3>1. x >= p
        BY <1>4, <2>1, <2>5
      <3>2. n * x >= n * p
        BY <3>1
      <3>3. v >= 2 * D
        BY <3>2, <2>2, <1>6
      <3>4. (2 * D) * (2 * D) <= v * v
        BY <3>3, <2>5
      <3>. QED
        BY <3>4, <2>3, <1>7
    <2>. QED
      BY <2>4, <2>5, <1>8
  <1>17. PICK k \in Nat : k = Cardinality(A)
    BY <1>9, FS_Subset, FS_CardinalityType
  <1>18. G >= (4 * E) * k
    <2>1. 4 * E \in Nat
      BY <1>8
    <2>2. SumFunctionOnSet(g, DOMAIN s) >= (4 * E) * Cardinality(A)
      BY <2>1, <1>9, <1>15, <1>16, SumOfLarge
    <2>. QED
      BY <2>2, <1>12, <1>17
  <1>19. n > 0
    <2>1. CASE n = 0
      <3>1. DOMAIN s = {}
        BY <2>1, <1>9
      <3>2. S = 0
        BY <3>1, <1>9, <1>11, SumRule
      <3>3. D = 0
        BY <3>2, <2>1, <1>6
      <3>. QED
        BY <3>3, <1>8
    <2>. QED
      BY <2>1
  <1>20. n * R <= n * (E - 1)
    BY <1>8, <1>19
  <1>21. ASSUME 2 * k >= n
         PROVE  FALSE
    <2>1. (2 * E) * (2 * k) >= (2 * E) * n
      BY <1>8, <1>21
    <2>2. (2 * E) * (2 * k) = (4 * E) * k
      OBVIOUS
    <2>3. n * (E - 1) = n * E - n /\ (2 * E) * n = n * E + n * E
      OBVIOUS
    <2>. QED
      BY <2>1, <2>2, <2>3, <1>14, <1>18, <1>19, <1>20
  <1>. QED
    BY <1>2, <1>17, <1>21

(* More than half of the sample has its values in V.                       *)
Mostly(s, V) == 2 * Cardinality({i \in DOMAIN s : s[i] \in V}) > Len(s)

(* A sequence of some numbers is one of numbers.                           *)
LEMMA NumbersInSequence ==
    ASSUME NEW P \in SUBSET Int, NEW s \in Seq(P)
    PROVE  /\ s \in Seq(Int) /\ DOMAIN s = 1..Len(s) /\ Len(s) \in Nat
           /\ \A i \in DOMAIN s : s[i] \in P
  <1>1. DOMAIN s = 1..Len(s) /\ Len(s) \in Nat /\ \A i \in 1..Len(s) : s[i] \in P
    OBVIOUS
  <1>2. \A i \in 1..Len(s) : s[i] \in Int
    BY <1>1
  <1>3. s = [i \in 1..Len(s) |-> s[i]]
    OBVIOUS
  <1>4. s \in [1..Len(s) -> Int]
    BY <1>2, <1>3
  <1>. QED
    BY <1>1, <1>4

(* A forecast above the mean by more than a standard deviation is above    *)
(* most of the sample; one so far below is not.                            *)
LEMMA FarAbove ==
    ASSUME NEW s \in Seq(0..100), NEW p \in 0..100
    PROVE  /\ ZAbove(s, p, 2) => Mostly(s, 0..p) /\ ~Mostly(s, p..100)
           /\ ZBelow(s, p, 2) => Mostly(s, p..100) /\ ~Mostly(s, 0..p)
  <1> DEFINE low == {i \in DOMAIN s : s[i] \in 0..p}
             high == {i \in DOMAIN s : s[i] \in p..100}
  <1>0. 0..100 \in SUBSET Int /\ p \in Int /\ 0 <= p /\ p <= 100
    OBVIOUS
  <1>1. s \in Seq(Int) /\ p \in Int
    BY <1>0, NumbersInSequence, Zenon
  <1>2. \A i \in DOMAIN s : s[i] \in 0..100
    BY <1>0, NumbersInSequence, Zenon
  <1>3. DOMAIN s \ low \subseteq high /\ DOMAIN s \ high \subseteq low
    <2>1. \A x \in 0..100 : x \in 0..p \/ x \in p..100
      BY <1>0
    <2>. QED
      BY <1>2, <2>1, Zenon
  <1>4. IsFiniteSet(DOMAIN s) /\ Cardinality(DOMAIN s) = Len(s) /\ Len(s) \in Nat
    BY <1>1, IndicesFinite
  <1>5. low \in SUBSET (DOMAIN s) /\ high \in SUBSET (DOMAIN s)
    OBVIOUS
  <1>6. Deviation(s, p) \in Int
    BY <1>1, SampleIs
  <1>7. ZAbove(s, p, 2) => 2 * Cardinality(high) < Len(s)
    <2>1. \A i \in high : s[i] >= p
      OBVIOUS
    <2> HIDE DEF high
    <2>. QED
      BY <2>1, <1>1, <1>5, <1>6, FarFromMean DEF ZAbove
  <1>8. ZBelow(s, p, 2) => 2 * Cardinality(low) < Len(s)
    <2>1. \A i \in low : s[i] <= p
      OBVIOUS
    <2> HIDE DEF low
    <2>. QED
      BY <2>1, <1>1, <1>5, <1>6, FarFromMean DEF ZBelow
  <1>9. Cardinality(low) \in Nat /\ Cardinality(high) \in Nat
    <2> HIDE DEF low, high
    <2>. QED
      BY <1>4, <1>5, FS_Subset, FS_CardinalityType
  <1>10. Cardinality(low) + Cardinality(high) >= Len(s)
    <2> HIDE DEF low, high
    <2>1. IsFiniteSet(low) /\ IsFiniteSet(high)
      BY <1>4, <1>5, FS_Subset
    <2>2. Cardinality(DOMAIN s \ low) = Cardinality(DOMAIN s) - Cardinality(DOMAIN s \cap low)
      BY <1>4, FS_Difference
    <2>3. DOMAIN s \cap low = low
      BY <1>5
    <2>4. Cardinality(DOMAIN s \ low) <= Cardinality(high)
      BY <1>3, <2>1, FS_Subset
    <2>5. Cardinality(DOMAIN s \ low) = Len(s) - Cardinality(low)
      BY <2>2, <2>3, <1>4
    <2>. QED
      BY <2>4, <2>5, <1>4, <1>9
  <1>11. Mostly(s, 0..p) <=> 2 * Cardinality(low) > Len(s)
    BY DEF Mostly
  <1>12. Mostly(s, p..100) <=> 2 * Cardinality(high) > Len(s)
    BY DEF Mostly
  <1> HIDE DEF low, high
  <1>. QED
    BY <1>4, <1>7, <1>8, <1>9, <1>10, <1>11, <1>12

(* One more value in V, and perhaps one less at the front, leaves most of  *)
(* the sample in V.                                                        *)
LEMMA MostlyStays ==
    ASSUME NEW s \in Seq(0..100), NEW p \in 0..100, NEW V, p \in V,
           Len(s) <= WindowSize, Mostly(s, V)
    PROVE  LET all == Append(s, p)
           IN  Mostly(IF Len(all) > WindowSize THEN Tail(all) ELSE all, V)
  <1> DEFINE all == Append(s, p)
             n == Len(s)
             In(t) == {i \in DOMAIN t : t[i] \in V}
  <1>1. /\ all \in Seq(0..100) /\ Len(all) = n + 1 /\ n \in Nat
        /\ \A i \in 1..n : all[i] = s[i]
        /\ all[n + 1] = p
        /\ DOMAIN all = 1..n + 1 /\ DOMAIN s = 1..n
    OBVIOUS
  <1> HIDE DEF all, n
  <1>2. In(all) = In(s) \cup {n + 1} /\ n + 1 \notin In(s)
    BY <1>1
  <1>3. IsFiniteSet(In(s)) /\ Cardinality(In(s)) \in Nat
    <2>1. IsFiniteSet(DOMAIN s) /\ In(s) \in SUBSET (DOMAIN s)
      BY IndicesFinite
    <2> HIDE DEF In
    <2>. QED
      BY <2>1, FS_Subset, FS_CardinalityType
  <1>4. 2 * Cardinality(In(s)) > n
    BY DEF Mostly, n
  <1>5. IsFiniteSet(In(all)) /\ Cardinality(In(all)) = Cardinality(In(s)) + 1
    <2> HIDE DEF In
    <2>. QED
      BY <1>2, <1>3, FS_AddElement
  <1>6. Mostly(all, V)
    <2>1. Mostly(all, V) <=> 2 * Cardinality(In(all)) > Len(all)
      BY DEF Mostly
    <2> HIDE DEF In
    <2>. QED
      BY <2>1, <1>1, <1>3, <1>4, <1>5
  <1>7. Mostly(Tail(all), V)
    <2> DEFINE u == Tail(all)
    <2>1. Len(u) = n /\ DOMAIN u = 1..n /\ \A i \in 1..n : u[i] = all[i + 1]
      BY <1>1
    <2> HIDE DEF u
    <2>2. In(u) = {i \in 1..n : all[i + 1] \in V}
      BY <2>1
    <2> DEFINE f == [i \in In(all) \ {1} |-> i - 1]
    <2>3. f \in Injection(In(all) \ {1}, In(u))
      <3>1. \A i \in In(all) \ {1} : i \in Int /\ i - 1 \in In(u)
        <4>. SUFFICES ASSUME NEW i \in In(all) \ {1}
                      PROVE  i \in Int /\ i - 1 \in In(u)
          OBVIOUS
        <4>1. i \in 1..n + 1 /\ i # 1 /\ all[i] \in V
          BY <1>1
        <4>2. i - 1 \in 1..n /\ (i - 1) + 1 = i
          BY <4>1, <1>1
        <4>3. all[(i - 1) + 1] \in V
          BY <4>1, <4>2
        <4> HIDE DEF In
        <4>. QED
          BY <4>1, <4>2, <4>3, <2>2
      <3>2. f \in [In(all) \ {1} -> In(u)]
        BY <3>1
      <3>3. \A i, j \in In(all) \ {1} : f[i] = f[j] => i = j
        BY <3>1
      <3>. QED
        BY <3>2, <3>3 DEF Injection, IsInjective
    <2>4. IsFiniteSet(In(u)) /\ Cardinality(In(u)) \in Nat
      <3>1. In(u) \in SUBSET (1..n) /\ IsFiniteSet(1..n)
        BY <2>2, <1>1, FS_Interval
      <3> HIDE DEF In
      <3>. QED
        BY <3>1, FS_Subset, FS_CardinalityType
    <2>5. Cardinality(In(all) \ {1}) <= Cardinality(In(u))
      <3> HIDE DEF In, f
      <3>. QED
        BY <2>3, <2>4, FS_Injection
    <2>6. Cardinality(In(all) \ {1}) >= Cardinality(In(all)) - 1
      <3> HIDE DEF In
      <3>1. Cardinality(In(all) \ {1}) =
              IF 1 \in In(all) THEN Cardinality(In(all)) - 1 ELSE Cardinality(In(all))
        BY <1>5, FS_RemoveElement
      <3>2. Cardinality(In(all)) \in Nat
        BY <1>5, FS_CardinalityType
      <3>. QED
        BY <3>1, <3>2
    <2>7. Cardinality(In(all) \ {1}) \in Nat
      <3> HIDE DEF In
      <3>1. IsFiniteSet(In(all) \ {1})
        BY <1>5, FS_RemoveElement
      <3>. QED
        BY <3>1, FS_CardinalityType
    <2>8. Mostly(u, V) <=> 2 * Cardinality(In(u)) > Len(u)
      BY DEF Mostly
    <2>9. Mostly(u, V)
      <3> HIDE DEF In
      <3>. QED
        BY <2>1, <2>4, <2>5, <2>6, <2>7, <2>8, <1>1, <1>3, <1>4, <1>5
    <2>. QED
      BY <2>9 DEF u
  <1>. QED
    BY <1>6, <1>7 DEF all

-----------------------------------------------------------------------------
(* The trend engine and its filter                                         *)

(* The calibrator's samples: windows of probabilities.                     *)
SamplesOK ==
    /\ DOMAIN history = Horizons
    /\ \A h \in Horizons : history[h] \in Seq(0..100) /\ Len(history[h]) \leq WindowSize

(* The samples are in their windows, the counters count.                   *)
FilterTypeOK ==
    /\ SamplesOK
    /\ side \in {"NONE", "LONG", "SHORT"}
    /\ DOMAIN filterStats = Counters /\ \A c \in Counters : filterStats[c] \in Nat
    /\ DOMAIN engineStats = {"total_checks", "entries", "exits"}
    /\ \A d \in DOMAIN engineStats : engineStats[d] \in Nat
    /\ skipped \in Nat /\ entered \in 0..100 \cup {Unknown}

(* While the forecast that opened a position comes again, most of the      *)
(* window does not lie beyond it.                                          *)
SideTaken ==
    entered # Unknown => \/ side = "LONG" /\ Mostly(history[10], 0..entered)
                         \/ side = "SHORT" /\ Mostly(history[10], entered..100)

FilterInv ==
    FilterTypeOK /\ PositionCounted /\ ChecksCounted /\ EntersCalibrated /\ SideTaken

(* By how much a verdict raises a counter.                                 *)
Raises(v, c) == IF c \in DOMAIN v.counted THEN v.counted[c] ELSE 0

RaisesSignals(v) == Raises(v, "long_signals") + Raises(v, "short_signals")
RaisesRejections(v) ==
    Raises(v, "rejected_dl") + Raises(v, "rejected_ma") + Raises(v, "rejected_ichimoku")

(* A verdict raises one or two of the counters that bound the checks, or   *)
(* none of any; with a position, that of a signal.                         *)
CountsItself(v) ==
    /\ v.opens \in {"NONE", "LONG", "SHORT"}
    /\ \A c \in Counters : Raises(v, c) \in Nat
    /\ RaisesSignals(v) + RaisesRejections(v) \leq 2
    /\ DOMAIN v.counted # {} => RaisesSignals(v) + RaisesRejections(v) \geq 1
    /\ DOMAIN v.counted = {} => RaisesSignals(v) + RaisesRejections(v) = 0
    /\ Raises(v, "calibrated_signals") \leq RaisesSignals(v)
    /\ Raises(v, "uncalibrated_signals") \leq Raises(v, "rejected_dl")
    /\ Raises(v, "rejected_not_ready") = 0
    /\ v.opens # "NONE" => RaisesSignals(v) \geq 1

(* What speaks against a side is one reason at most.                       *)
LEMMA AgainstIs ==
    \A p, m, sign : /\ Trend(m, sign) \in {{}, {"rejected_ma"}, {"rejected_ichimoku"}}
                    /\ Against(p, m, sign) \in
                         {{}, {"rejected_dl"}, {"rejected_ma"}, {"rejected_ichimoku"}}
  BY DEF Trend, Against

(* The verdict on one probability counts itself.                           *)
LEMMA SingleCounts ==
    ASSUME NEW p, NEW m, m.ready
    PROVE  CountsItself(SingleVerdict(p, m))
  <1> DEFINE v == SingleVerdict(p, m)
             long == Against(p, m, 1)
             short == Against(100 - p, m, -1)
  <1>1. PICK a \in {{}, {"rejected_dl"}, {"rejected_ma"}, {"rejected_ichimoku"}} : a = long
    BY AgainstIs
  <1>2. PICK b \in {{}, {"rejected_dl"}, {"rejected_ma"}, {"rejected_ichimoku"}} : b = short
    BY AgainstIs
  <1>3. CASE a = {}
    <2>1. v = Verdict("LONG", [c \in {"long_signals"} |-> 1])
      BY <1>1, <1>3 DEF SingleVerdict
    <2>2. v.opens = "LONG" /\ v.counted = [c \in {"long_signals"} |-> 1]
      BY <2>1 DEF Verdict
    <2> HIDE DEF v
    <2>. QED
      BY <2>2 DEF CountsItself, Raises, RaisesSignals, RaisesRejections, Counters, v
  <1>4. CASE a # {} /\ b = {}
    <2>1. v = Verdict("SHORT", [c \in a \cup {"short_signals"} |-> 1])
      BY <1>1, <1>2, <1>4 DEF SingleVerdict
    <2>2. v.opens = "SHORT" /\ v.counted = [c \in a \cup {"short_signals"} |-> 1]
      BY <2>1 DEF Verdict
    <2> HIDE DEF v
    <2>. QED
      BY <2>2, <1>1, <1>4 DEF CountsItself, Raises, RaisesSignals, RaisesRejections, Counters, v
  <1>5. CASE a # {} /\ b # {}
    <2>1. v = Verdict("NONE", [c \in a \cup b |-> IF a = b THEN 2 ELSE 1])
      BY <1>1, <1>2, <1>5 DEF SingleVerdict
    <2>2. v.opens = "NONE" /\ v.counted = [c \in a \cup b |-> IF a = b THEN 2 ELSE 1]
      BY <2>1 DEF Verdict
    <2>3. PICK x \in {"rejected_dl", "rejected_ma", "rejected_ichimoku"} : a = {x}
      BY <1>1, <1>5
    <2>4. PICK y \in {"rejected_dl", "rejected_ma", "rejected_ichimoku"} : b = {y}
      BY <1>2, <1>5
    <2>5. DOMAIN v.counted = {x, y} /\ \A c \in {x, y} : v.counted[c] = IF x = y THEN 2 ELSE 1
      BY <2>2, <2>3, <2>4
    <2> HIDE DEF v
    <2>. QED
      BY <2>2, <2>3, <2>4, <2>5
         DEF CountsItself, Raises, RaisesSignals, RaisesRejections, Counters, v
  <1>. QED
    BY <1>3, <1>4, <1>5

(* So does the verdict on several horizons; and it opens a position only   *)
(* when all of them have their samples and the last is far from its mean.  *)
LEMMA MultiCounts ==
    ASSUME NEW f, NEW z, NEW m, m.ready
    PROVE  LET v == MultiVerdict(f, z, m)
           IN  /\ CountsItself(v)
               /\ v.opens # "NONE" => \A h \in Horizons : Calibrated(z[h])
               /\ v.opens = "LONG" => ZAbove(z[10], f[10], 2)
               /\ v.opens = "SHORT" => ZBelow(z[10], f[10], 2)
  <1> DEFINE v == MultiVerdict(f, z, m)
             ready == \A h \in Horizons : Calibrated(z[h])
             sign == IF ZAbove(z[10], f[10], 2) /\ \E h \in {1, 3} : ZAbove(z[h], f[h], 1)
                     THEN 1
                     ELSE IF ZBelow(z[10], f[10], 2) /\ \E h \in {1, 3} : ZBelow(z[h], f[h], 0)
                     THEN -1 ELSE 0
  <1>1. \/ v = Verdict("NONE", <<>>)
        \/ ready /\ v = CalibratedVerdict(f, z, m)
        \/ v = Verdict("NONE", [c \in {"uncalibrated_signals", "rejected_dl"} |-> 1])
    <2> HIDE DEF ready
    <2>1. ready <=> \A h \in Horizons : Calibrated(z[h])
      BY DEF ready
    <2>. QED
      BY <2>1 DEF MultiVerdict
  <1>2. PICK against \in {{}, {"rejected_ma"}, {"rejected_ichimoku"}} : against = Trend(m, sign)
    BY AgainstIs
  <1>3. CalibratedVerdict(f, z, m) =
          IF sign = 0 THEN Verdict("NONE", [c \in {"rejected_dl"} |-> 1])
          ELSE IF against # {} THEN Verdict("NONE", [c \in against |-> 1])
          ELSE IF sign = 1 THEN Verdict("LONG", [c \in {"long_signals", "calibrated_signals"} |-> 1])
          ELSE Verdict("SHORT", [c \in {"short_signals", "calibrated_signals"} |-> 1])
    BY <1>2 DEF CalibratedVerdict
  <1>4. /\ sign = 1 => ZAbove(z[10], f[10], 2)
        /\ sign = -1 => ZBelow(z[10], f[10], 2)
        /\ sign \in {0, 1, -1}
    OBVIOUS
  <1> HIDE DEF v, ready, sign
  <1> USE DEF CountsItself, Raises, RaisesSignals, RaisesRejections, Counters, Verdict
  <1>5. CASE v = Verdict("NONE", <<>>)
    <2>1. v.opens = "NONE" /\ DOMAIN v.counted = {}
      BY <1>5
    <2>. QED
      BY <2>1 DEF v
  <1>6. CASE v = Verdict("NONE", [c \in {"uncalibrated_signals", "rejected_dl"} |-> 1])
    <2>1. v.opens = "NONE" /\ v.counted = [c \in {"uncalibrated_signals", "rejected_dl"} |-> 1]
      BY <1>6
    <2>. QED
      BY <2>1 DEF v
  <1>7. CASE ready /\ v = CalibratedVerdict(f, z, m)
    <2>1. CASE sign = 0
      <3>1. v.opens = "NONE" /\ v.counted = [c \in {"rejected_dl"} |-> 1]
        BY <1>3, <1>7, <2>1
      <3>. QED
        BY <3>1 DEF v
    <2>2. CASE sign # 0 /\ against # {}
      <3>1. v.opens = "NONE" /\ v.counted = [c \in against |-> 1]
        BY <1>3, <1>7, <2>2
      <3>. QED
        BY <3>1, <1>2, <2>2 DEF v
    <2>3. CASE sign = 1 /\ against = {}
      <3>1. v.opens = "LONG"
            /\ v.counted = [c \in {"long_signals", "calibrated_signals"} |-> 1]
        BY <1>3, <1>7, <2>3
      <3>. QED
        BY <3>1, <1>4, <1>7, <2>3 DEF v, ready
    <2>4. CASE sign = -1 /\ against = {}
      <3>1. v.opens = "SHORT"
            /\ v.counted = [c \in {"short_signals", "calibrated_signals"} |-> 1]
        BY <1>3, <1>7, <2>4
      <3>. QED
        BY <3>1, <1>4, <1>7, <2>4 DEF v, ready
    <2>. QED
      BY <1>4, <2>1, <2>2, <2>3, <2>4
  <1>. QED
    BY <1>1, <1>5, <1>6, <1>7

(* A sequence with one more element, and without its first.                *)
LEMMA AppendedIs ==
    ASSUME NEW S, NEW u \in Seq(S), NEW x \in S
    PROVE  /\ Append(u, x) \in Seq(S) /\ Len(Append(u, x)) = Len(u) + 1 /\ Len(u) \in Nat
           /\ Tail(Append(u, x)) \in Seq(S) /\ Len(Tail(Append(u, x))) = Len(u)
  OBVIOUS

(* The windows after one more forecast: as long or longer, and most of one *)
(* lies where most of it lay if the forecast does.                         *)
LEMMA RecordedIs ==
    ASSUME SamplesOK, NEW f \in Forecasts
    PROVE  /\ DOMAIN Recorded(f) = Horizons
           /\ \A h \in Horizons :
                 /\ Recorded(f)[h] \in Seq(0..100) /\ Len(Recorded(f)[h]) \leq WindowSize
                 /\ Len(Recorded(f)[h]) \geq Len(history[h])
                 /\ f[h] \in 0..100
                 /\ \A V : f[h] \in V /\ Mostly(history[h], V) => Mostly(Recorded(f)[h], V)
  <1>1. WindowSize \in Nat \ {0} /\ \A h \in Horizons : f[h] \in 0..100
    BY TrendFilterAssumption
  <1>. SUFFICES ASSUME NEW h \in Horizons
                PROVE  /\ Recorded(f)[h] \in Seq(0..100) /\ Len(Recorded(f)[h]) \leq WindowSize
                       /\ Len(Recorded(f)[h]) \geq Len(history[h])
                       /\ \A V : f[h] \in V /\ Mostly(history[h], V) => Mostly(Recorded(f)[h], V)
    BY <1>1 DEF Recorded
  <1>2. PICK s : s = history[h] /\ s \in Seq(0..100) /\ Len(s) \leq WindowSize
    BY DEF SamplesOK
  <1>3. PICK p \in 0..100 : p = f[h]
    BY <1>1
  <1> DEFINE all == Append(s, p)
             t == IF Len(all) > WindowSize THEN Tail(all) ELSE all
  <1>4. Recorded(f)[h] = t
    BY <1>2, <1>3 DEF Recorded
  <1>5. /\ all \in Seq(0..100) /\ Len(all) = Len(s) + 1 /\ Len(s) \in Nat
        /\ Tail(all) \in Seq(0..100) /\ Len(Tail(all)) = Len(s)
    <2>1. PICK S : S = 0..100
      OBVIOUS
    <2>2. s \in Seq(S) /\ p \in S
      BY <1>2, <1>3, <2>1
    <2>3. /\ all \in Seq(S) /\ Len(all) = Len(s) + 1 /\ Len(s) \in Nat
          /\ Tail(all) \in Seq(S) /\ Len(Tail(all)) = Len(s)
      BY <2>2, AppendedIs
    <2> HIDE DEF all
    <2>. QED
      BY <2>1, <2>3
  <1>6. t \in Seq(0..100) /\ Len(t) \leq WindowSize /\ Len(t) \geq Len(s)
    <2> HIDE DEF all
    <2>. QED
      BY <1>1, <1>2, <1>5
  <1>7. \A V : p \in V /\ Mostly(s, V) => Mostly(t, V)
    BY <1>2, <1>3, MostlyStays, Zenon
  <1> HIDE DEF t
  <1>. QED
    BY <1>2, <1>3, <1>4, <1>6, <1>7

(* One more check of the engine.                                           *)
LEMMA CheckedIs ==
    ASSUME FilterTypeOK, NEW c \in {"none", "entries", "exits"}, Checked(c)
    PROVE  /\ DOMAIN engineStats' = {"total_checks", "entries", "exits"}
           /\ \A d \in DOMAIN engineStats' : engineStats'[d] \in Nat
           /\ engineStats'.total_checks = engineStats.total_checks + 1
           /\ engineStats'.entries = engineStats.entries + (IF c = "entries" THEN 1 ELSE 0)
           /\ engineStats'.exits = engineStats.exits + (IF c = "exits" THEN 1 ELSE 0)
           /\ engineStats.total_checks \in Nat /\ engineStats.entries \in Nat
           /\ engineStats.exits \in Nat
  BY DEF FilterTypeOK, Checked

(* The counters of the filter are numbers.                                 *)
LEMMA FilterCounts ==
    FilterTypeOK => /\ \A c \in Counters : filterStats[c] \in Nat
                    /\ filterStats.total_checks \in Nat /\ skipped \in Nat
                    /\ filterStats.long_signals \in Nat /\ filterStats.short_signals \in Nat
                    /\ filterStats.rejected_dl \in Nat /\ filterStats.rejected_ma \in Nat
                    /\ filterStats.rejected_ichimoku \in Nat
                    /\ filterStats.rejected_not_ready \in Nat
                    /\ filterStats.calibrated_signals \in Nat
                    /\ filterStats.uncalibrated_signals \in Nat
                    /\ EntrySignals \in Nat /\ Rejections \in Nat
  BY DEF FilterTypeOK, Counters, EntrySignals, Rejections

(* A check that decides nothing.                                           *)
LEMMA HoldKeeps ==
    ASSUME FilterInv, Hold, SamplesOK', EntersCalibrated', SideTaken',
           entered' \in 0..100 \cup {Unknown}
    PROVE  FilterInv'
  <1>1. Checked("none") /\ UNCHANGED <<side, filterStats, skipped>>
    BY DEF Hold
  <1>2. /\ DOMAIN engineStats' = {"total_checks", "entries", "exits"}
        /\ \A d \in DOMAIN engineStats' : engineStats'[d] \in Nat
        /\ engineStats'.total_checks = engineStats.total_checks + 1
        /\ engineStats'.entries = engineStats.entries
        /\ engineStats'.exits = engineStats.exits
        /\ engineStats.total_checks \in Nat /\ engineStats.entries \in Nat
        /\ engineStats.exits \in Nat
    <2>1. FilterTypeOK
      BY DEF FilterInv
    <2>. QED
      BY <1>1, <2>1, CheckedIs
  <1>3. FilterTypeOK'
    BY <1>1, <1>2 DEF FilterInv, FilterTypeOK
  <1>4. PositionCounted'
    BY <1>1, <1>2 DEF FilterInv, PositionCounted, EntrySignals
  <1>5. ChecksCounted'
    <2>1. filterStats.total_checks \in Nat /\ filterStats.total_checks <= engineStats.total_checks
      BY FilterCounts DEF FilterInv, ChecksCounted
    <2>. QED
      BY <1>1, <1>2, <2>1 DEF FilterInv, ChecksCounted, EntrySignals, Rejections
  <1>. QED
    BY <1>3, <1>4, <1>5 DEF FilterInv

(* The position is closed.                                                 *)
LEMMA CreateExitKeeps ==
    ASSUME FilterInv, CreateExit, SamplesOK'
    PROVE  FilterInv'
  <1>1. /\ side # "NONE" /\ side' = "NONE" /\ entered' = Unknown
        /\ Checked("exits") /\ UNCHANGED <<filterStats, skipped>>
    BY DEF CreateExit
  <1>2. /\ DOMAIN engineStats' = {"total_checks", "entries", "exits"}
        /\ \A d \in DOMAIN engineStats' : engineStats'[d] \in Nat
        /\ engineStats'.total_checks = engineStats.total_checks + 1
        /\ engineStats'.entries = engineStats.entries
        /\ engineStats'.exits = engineStats.exits + 1
        /\ engineStats.total_checks \in Nat /\ engineStats.entries \in Nat
        /\ engineStats.exits \in Nat
    <2>1. FilterTypeOK
      BY DEF FilterInv
    <2>. QED
      BY <1>1, <2>1, CheckedIs
  <1>3. FilterTypeOK'
    BY <1>1, <1>2 DEF FilterInv, FilterTypeOK
  <1>4. PositionCounted'
    BY <1>1, <1>2 DEF FilterInv, PositionCounted, EntrySignals
  <1>5. ChecksCounted'
    <2>1. filterStats.total_checks \in Nat /\ filterStats.total_checks <= engineStats.total_checks
      BY FilterCounts DEF FilterInv, ChecksCounted
    <2>. QED
      BY <1>1, <1>2, <2>1 DEF FilterInv, ChecksCounted, EntrySignals, Rejections
  <1>6. EntersCalibrated' /\ SideTaken'
    BY <1>1 DEF EntersCalibrated, SideTaken
  <1>. QED
    BY <1>3, <1>4, <1>5, <1>6 DEF FilterInv

(* The filter is asked, and the position may be opened.                    *)
LEMMA TryEntryKeeps ==
    ASSUME FilterInv, SamplesOK', NEW v, CountsItself(v), NEW h10 \in 0..100 \cup {Unknown},
           TryEntry(v, h10),
           v.opens # "NONE" /\ h10 # Unknown => \A h \in Horizons : Len(history'[h]) >= MinSamples,
           v.opens = "LONG" /\ h10 # Unknown => Mostly(history'[10], 0..h10),
           v.opens = "SHORT" /\ h10 # Unknown => Mostly(history'[10], h10..100)
    PROVE  FilterInv'
  <1>1. /\ side = "NONE" /\ FilterTypeOK
        /\ filterStats' = [c \in Counters |->
             filterStats[c] + (IF c = "total_checks" THEN 1 ELSE Raises(v, c))]
        /\ skipped' = skipped + (IF DOMAIN v.counted = {} THEN 1 ELSE 0)
    BY DEF TryEntry, Raises, FilterInv
  <1>2. entered = Unknown
    BY <1>1 DEF FilterInv, SideTaken
  <1>3. PICK n \in {0, 1} :
          /\ DOMAIN engineStats' = {"total_checks", "entries", "exits"}
          /\ \A d \in DOMAIN engineStats' : engineStats'[d] \in Nat
          /\ engineStats'.total_checks = engineStats.total_checks + 1
          /\ engineStats'.entries = engineStats.entries + n
          /\ engineStats'.exits = engineStats.exits
          /\ engineStats.total_checks \in Nat /\ engineStats.entries \in Nat
          /\ engineStats.exits \in Nat
          /\ n = 1 => v.opens # "NONE" /\ side' = v.opens /\ entered' = h10
          /\ n = 0 => side' = "NONE" /\ entered' = Unknown
    <2>1. CASE v.opens # "NONE" /\ side' = v.opens /\ entered' = h10 /\ Checked("entries")
      <3>1. /\ DOMAIN engineStats' = {"total_checks", "entries", "exits"}
            /\ \A d \in DOMAIN engineStats' : engineStats'[d] \in Nat
            /\ engineStats'.total_checks = engineStats.total_checks + 1
            /\ engineStats'.entries = engineStats.entries + 1
            /\ engineStats'.exits = engineStats.exits
            /\ engineStats.total_checks \in Nat /\ engineStats.entries \in Nat
            /\ engineStats.exits \in Nat
        BY <1>1, <2>1, CheckedIs
      <3>. QED
        BY <2>1, <3>1
    <2>2. CASE Checked("none") /\ UNCHANGED <<side, entered>>
      <3>1. /\ DOMAIN engineStats' = {"total_checks", "entries", "exits"}
            /\ \A d \in DOMAIN engineStats' : engineStats'[d] \in Nat
            /\ engineStats'.total_checks = engineStats.total_checks + 1
            /\ engineStats'.entries = engineStats.entries
            /\ engineStats'.exits = engineStats.exits
            /\ engineStats.total_checks \in Nat /\ engineStats.entries \in Nat
            /\ engineStats.exits \in Nat
        BY <1>1, <2>2, CheckedIs
      <3>. QED
        BY <1>1, <1>2, <2>2, <3>1
    <2>. QED
      BY <2>1, <2>2 DEF TryEntry
  <1>4. /\ \A c \in Counters : Raises(v, c) \in Nat /\ filterStats[c] \in Nat
        /\ DOMAIN filterStats' = Counters
        /\ filterStats'.total_checks = filterStats.total_checks + 1
        /\ \A c \in Counters \ {"total_checks"} : filterStats'[c] = filterStats[c] + Raises(v, c)
    BY <1>1, FilterCounts DEF CountsItself, Counters
  <1>5. FilterTypeOK'
    <2>1. ASSUME NEW c \in Counters
          PROVE  filterStats'[c] \in Nat
      <3>1. CASE c = "total_checks"
        BY <3>1, <1>1, FilterCounts
      <3>2. CASE c # "total_checks"
        BY <3>2, <1>4
      <3>. QED
        BY <3>1, <3>2
    <2>2. skipped' \in Nat
      BY <1>1, FilterCounts
    <2>3. side' \in {"NONE", "LONG", "SHORT"} /\ entered' \in 0..100 \cup {Unknown}
      BY <1>3 DEF CountsItself
    <2>. QED
      BY <1>3, <1>4, <2>1, <2>2, <2>3 DEF FilterTypeOK
  <1>a. /\ {"long_signals", "short_signals", "rejected_dl", "rejected_ma", "rejected_ichimoku",
            "calibrated_signals", "uncalibrated_signals", "rejected_not_ready"}
             \in SUBSET (Counters \ {"total_checks"})
    BY DEF Counters
  <1>b. /\ Raises(v, "long_signals") \in Nat /\ Raises(v, "short_signals") \in Nat
        /\ Raises(v, "rejected_dl") \in Nat /\ Raises(v, "rejected_ma") \in Nat
        /\ Raises(v, "rejected_ichimoku") \in Nat /\ Raises(v, "calibrated_signals") \in Nat
        /\ Raises(v, "uncalibrated_signals") \in Nat
    BY <1>4, <1>a
  <1>c. /\ filterStats'.long_signals = filterStats.long_signals + Raises(v, "long_signals")
        /\ filterStats'.short_signals = filterStats.short_signals + Raises(v, "short_signals")
        /\ filterStats'.rejected_dl = filterStats.rejected_dl + Raises(v, "rejected_dl")
        /\ filterStats'.rejected_ma = filterStats.rejected_ma + Raises(v, "rejected_ma")
        /\ filterStats'.rejected_ichimoku =
             filterStats.rejected_ichimoku + Raises(v, "rejected_ichimoku")
        /\ filterStats'.calibrated_signals =
             filterStats.calibrated_signals + Raises(v, "calibrated_signals")
        /\ filterStats'.uncalibrated_signals =
             filterStats.uncalibrated_signals + Raises(v, "uncalibrated_signals")
        /\ filterStats'.rejected_not_ready =
             filterStats.rejected_not_ready + Raises(v, "rejected_not_ready")
    BY <1>4, <1>a
  <1>6. PICK sg, rj, cb, uc, dl \in Nat :
          /\ sg = RaisesSignals(v) /\ rj = RaisesRejections(v) /\ dl = Raises(v, "rejected_dl")
          /\ cb = Raises(v, "calibrated_signals") /\ uc = Raises(v, "uncalibrated_signals")
    <2>1. RaisesSignals(v) \in Nat /\ RaisesRejections(v) \in Nat
      BY <1>b DEF RaisesSignals, RaisesRejections
    <2>. QED
      BY <1>b, <2>1
  <1>7. /\ EntrySignals' = EntrySignals + sg /\ Rejections' = Rejections + rj
        /\ filterStats'.calibrated_signals = filterStats.calibrated_signals + cb
        /\ filterStats'.uncalibrated_signals = filterStats.uncalibrated_signals + uc
        /\ filterStats'.rejected_dl = filterStats.rejected_dl + dl
        /\ filterStats'.rejected_not_ready =
             filterStats.rejected_not_ready + Raises(v, "rejected_not_ready")
    <2>1. EntrySignals' = EntrySignals + sg
      <3>1. PICK a, b, x, y \in Nat :
               /\ a = filterStats.long_signals /\ b = filterStats.short_signals
               /\ x = Raises(v, "long_signals") /\ y = Raises(v, "short_signals")
        BY <1>1, <1>b, FilterCounts
      <3>2. EntrySignals = a + b /\ EntrySignals' = (a + x) + (b + y) /\ sg = x + y
        BY <3>1, <1>c, <1>6 DEF EntrySignals, RaisesSignals
      <3>3. a \in Nat /\ b \in Nat /\ x \in Nat /\ y \in Nat
        BY <3>1
      <3>4. (a + x) + (b + y) = (a + b) + (x + y)
        BY <3>3
      <3>. QED
        BY <3>2, <3>4
    <2>2. Rejections' = Rejections + rj
      <3>1. PICK a, b, c, x, y, z \in Nat :
               /\ a = filterStats.rejected_dl /\ b = filterStats.rejected_ma
               /\ c = filterStats.rejected_ichimoku
               /\ x = Raises(v, "rejected_dl") /\ y = Raises(v, "rejected_ma")
               /\ z = Raises(v, "rejected_ichimoku")
        BY <1>1, <1>b, FilterCounts
      <3>2. Rejections = a + b + c /\ Rejections' = (a + x) + (b + y) + (c + z) /\ rj = x + y + z
        BY <3>1, <1>c, <1>6 DEF Rejections, RaisesRejections
      <3>3. /\ a \in Nat /\ b \in Nat /\ c \in Nat
            /\ x \in Nat /\ y \in Nat /\ z \in Nat
        BY <3>1
      <3>4. (a + x) + (b + y) + (c + z) = (a + b + c) + (x + y + z)
        BY <3>3
      <3>. QED
        BY <3>2, <3>4
    <2>. QED
      BY <1>c, <1>6, <2>1, <2>2
  <1>8. /\ sg + rj <= 2 /\ cb <= sg /\ uc <= dl /\ Raises(v, "rejected_not_ready") = 0
        /\ DOMAIN v.counted # {} => sg + rj >= 1
        /\ DOMAIN v.counted = {} => sg + rj = 0
        /\ v.opens # "NONE" => sg >= 1
    BY <1>6 DEF CountsItself
  <1>9. /\ EntrySignals \in Nat /\ Rejections \in Nat /\ skipped \in Nat
        /\ filterStats.total_checks \in Nat /\ filterStats.calibrated_signals \in Nat
        /\ filterStats.uncalibrated_signals \in Nat /\ filterStats.rejected_dl \in Nat
    BY <1>1, FilterCounts
  <1>10. PositionCounted'
    <2>1. engineStats.entries = engineStats.exits /\ engineStats.entries <= EntrySignals
      BY <1>1, <1>3 DEF FilterInv, PositionCounted
    <2>2. n = 1 => side' # "NONE" /\ sg >= 1
      BY <1>3, <1>8
    <2>3. engineStats'.entries <= EntrySignals'
      BY <1>3, <1>7, <1>9, <2>1, <2>2
    <2>. QED
      BY <1>3, <2>1, <2>2, <2>3 DEF PositionCounted
  <1>11. ChecksCounted'
    <2>1. /\ filterStats.total_checks <= skipped + EntrySignals + Rejections
          /\ skipped + EntrySignals + Rejections <= 2 * filterStats.total_checks
          /\ filterStats.calibrated_signals <= EntrySignals
          /\ filterStats.uncalibrated_signals <= filterStats.rejected_dl
          /\ filterStats.rejected_not_ready = 0
          /\ filterStats.total_checks <= engineStats.total_checks
      BY DEF FilterInv, ChecksCounted
    <2>a. PICK es, rs, sk, tc, et \in Nat :
             /\ es = EntrySignals /\ rs = Rejections /\ sk = skipped
             /\ tc = filterStats.total_checks /\ et = engineStats.total_checks
             /\ EntrySignals' = es + sg /\ Rejections' = rs + rj
             /\ filterStats'.total_checks = tc + 1 /\ engineStats'.total_checks = et + 1
             /\ tc <= sk + es + rs /\ sk + es + rs <= 2 * tc /\ tc <= et
      BY <1>3, <1>4, <1>7, <1>9, <2>1
    <2>b. (/\ skipped' \in Nat
           /\ tc + 1 <= skipped' + (es + sg) + (rs + rj)
           /\ skipped' + (es + sg) + (rs + rj) <= 2 * (tc + 1)) => ChecksCounted'
      <3>1. /\ filterStats'.calibrated_signals <= EntrySignals'
            /\ filterStats'.uncalibrated_signals <= filterStats'.rejected_dl
            /\ filterStats'.rejected_not_ready = 0
        <4>1. PICK cs, us, ds \in Nat :
                 /\ cs = filterStats.calibrated_signals /\ us = filterStats.uncalibrated_signals
                 /\ ds = filterStats.rejected_dl
          BY <1>9
        <4>2. cs <= es /\ us <= ds
          BY <2>1, <2>a, <4>1
        <4>3. /\ filterStats'.calibrated_signals = cs + cb /\ EntrySignals' = es + sg
              /\ filterStats'.uncalibrated_signals = us + uc
              /\ filterStats'.rejected_dl = ds + dl
          BY <1>7, <2>a, <4>1
        <4>4. filterStats'.rejected_not_ready = 0
          BY <1>7, <1>8, <2>1
        <4>5. cs + cb <= es + sg /\ us + uc <= ds + dl
          <5>1. /\ cs \in Nat /\ us \in Nat /\ ds \in Nat /\ es \in Nat
                /\ sg \in Nat /\ cb \in Nat /\ uc \in Nat /\ dl \in Nat
            BY <1>6, <2>a, <4>1
          <5>2. cb <= sg /\ uc <= dl
            BY <1>8
          <5>. QED
            BY <5>1, <5>2, <4>2
        <4>. QED
          BY <4>3, <4>4, <4>5
      <3>2. tc + 1 <= et + 1
        BY <2>a
      <3>. QED
        BY <2>a, <3>1, <3>2 DEF ChecksCounted
    <2>2. CASE DOMAIN v.counted = {}
      <3>1. skipped' = skipped + 1 /\ sg = 0 /\ rj = 0
        BY <1>1, <1>8, <2>2
      <3>2. /\ es \in Nat /\ rs \in Nat /\ sk \in Nat /\ tc \in Nat /\ sk = skipped
            /\ sg \in Nat /\ rj \in Nat
            /\ tc <= sk + es + rs /\ sk + es + rs <= 2 * tc
        BY <1>6, <2>a
      <3>3. sg + rj <= 2
        BY <1>8
      <3>4. /\ skipped' \in Nat
            /\ tc + 1 <= skipped' + (es + sg) + (rs + rj)
            /\ skipped' + (es + sg) + (rs + rj) <= 2 * (tc + 1)
        BY <3>1, <3>2, <3>3
      <3>. QED
        BY <3>4, <2>b
    <2>3. CASE DOMAIN v.counted # {}
      <3>1. skipped' = skipped /\ sg + rj >= 1
        BY <1>1, <1>8, <1>9, <2>3
      <3>2. /\ es \in Nat /\ rs \in Nat /\ sk \in Nat /\ tc \in Nat /\ sk = skipped
            /\ sg \in Nat /\ rj \in Nat
            /\ tc <= sk + es + rs /\ sk + es + rs <= 2 * tc
        BY <1>6, <2>a
      <3>3. sg + rj <= 2
        BY <1>8
      <3>4. /\ skipped' \in Nat
            /\ tc + 1 <= skipped' + (es + sg) + (rs + rj)
            /\ skipped' + (es + sg) + (rs + rj) <= 2 * (tc + 1)
        BY <3>1, <3>2, <3>3
      <3>. QED
        BY <3>4, <2>b
    <2>. QED
      BY <2>2, <2>3
  <1>12. EntersCalibrated'
    BY <1>3 DEF EntersCalibrated
  <1>13. SideTaken'
    BY <1>3 DEF SideTaken, CountsItself
  <1>. QED
    BY <1>5, <1>10, <1>11, <1>12, <1>13 DEF FilterInv

(* A check of several horizons.                                            *)
LEMMA MultiKeeps ==
    ASSUME FilterInv, NEW f \in Forecasts, NEW m \in Markets, CheckMultiHorizon(f, m)
    PROVE  FilterInv'
  <1> DEFINE z == Recorded(f)
  <1>1. SamplesOK /\ FilterTypeOK /\ history' = z
    BY DEF FilterInv, FilterTypeOK, CheckMultiHorizon
  <1>2. /\ DOMAIN z = Horizons
        /\ \A h \in Horizons : /\ z[h] \in Seq(0..100) /\ Len(z[h]) \leq WindowSize
                               /\ Len(z[h]) \geq Len(history[h]) /\ f[h] \in 0..100
        /\ \A V : f[10] \in V /\ Mostly(history[10], V) => Mostly(z[10], V)
    BY <1>1, RecordedIs DEF Horizons
  <1>3. SamplesOK'
    <2> HIDE DEF z
    <2>. QED
      BY <1>1, <1>2 DEF SamplesOK
  <1>4. PICK p \in 0..100 : p = f[10]
    BY <1>2 DEF Horizons
  <1>5. \A h \in Horizons : Len(history[h]) \in Nat /\ Len(z[h]) \in Nat
    <2>1. \A S : \A u \in Seq(S) : Len(u) \in Nat
      OBVIOUS
    <2>2. \A h \in Horizons : history[h] \in Seq(0..100) /\ z[h] \in Seq(0..100)
      BY <1>1, <1>2 DEF SamplesOK
    <2>. QED
      BY <2>1, <2>2, Zenon
  <1>6. MinSamples \in Nat
    BY TrendFilterAssumption
  <1> HIDE DEF z
  <1>7. CASE side # "NONE" /\ CreateExit
    BY <1>3, <1>7, CreateExitKeeps
  <1>8. CASE side # "NONE" /\ Hold /\ entered' = IF f[10] = entered THEN entered ELSE Unknown
    <2>1. entered' \in 0..100 \cup {Unknown} /\ side' = side
      BY <1>1, <1>8 DEF FilterTypeOK, Hold
    <2>2. EntersCalibrated'
      <3>1. SUFFICES ASSUME entered' # Unknown, NEW h \in Horizons
                     PROVE  Len(history'[h]) >= MinSamples
        BY DEF EntersCalibrated
      <3>2. entered # Unknown
        BY <1>8, <3>1
      <3>3. Len(history[h]) >= MinSamples /\ Len(z[h]) >= Len(history[h])
        BY <1>2, <3>2 DEF FilterInv, EntersCalibrated
      <3>. QED
        BY <1>1, <1>5, <1>6, <3>3
    <2>3. SideTaken'
      <3>1. SUFFICES ASSUME entered' # Unknown
                     PROVE  SideTaken'
        BY DEF SideTaken
      <3>2. entered # Unknown /\ entered' = entered /\ p = entered
        BY <1>4, <1>8, <3>1
      <3>3. p \in 0..entered /\ p \in entered..100
        BY <3>2
      <3>4. \/ side = "LONG" /\ Mostly(history[10], 0..entered)
            \/ side = "SHORT" /\ Mostly(history[10], entered..100)
        BY <3>2 DEF FilterInv, SideTaken
      <3>5. \/ side' = "LONG" /\ Mostly(history'[10], 0..entered')
            \/ side' = "SHORT" /\ Mostly(history'[10], entered'..100)
        BY <1>1, <1>2, <1>4, <2>1, <3>2, <3>3, <3>4, Zenon
      <3>. QED
        BY <3>5 DEF SideTaken
    <2>. QED
      BY <1>3, <1>8, <2>1, <2>2, <2>3, HoldKeeps
  <1>9. CASE side = "NONE" /\ ~m.ready /\ Hold /\ UNCHANGED entered
    <2>1. entered = Unknown
      BY <1>9 DEF FilterInv, SideTaken
    <2>2. EntersCalibrated' /\ SideTaken' /\ entered' \in 0..100 \cup {Unknown}
      BY <1>9, <2>1 DEF EntersCalibrated, SideTaken
    <2>. QED
      BY <1>3, <1>9, <2>2, HoldKeeps
  <1>10. CASE side = "NONE" /\ m.ready /\ TryEntry(MultiVerdict(f, z, m), f[10])
    <2> DEFINE v == MultiVerdict(f, z, m)
    <2>1. /\ CountsItself(v)
          /\ v.opens # "NONE" => \A h \in Horizons : Calibrated(z[h])
          /\ v.opens = "LONG" => ZAbove(z[10], p, 2)
          /\ v.opens = "SHORT" => ZBelow(z[10], p, 2)
      BY <1>4, <1>10, MultiCounts
    <2>2. v.opens # "NONE" => \A h \in Horizons : Len(history'[h]) >= MinSamples
      BY <1>1, <2>1 DEF Calibrated
    <2>3. z[10] \in Seq(0..100)
      BY <1>2 DEF Horizons
    <2>4. /\ v.opens = "LONG" => Mostly(history'[10], 0..p)
          /\ v.opens = "SHORT" => Mostly(history'[10], p..100)
      <3> HIDE DEF v
      <3>. QED
        BY <1>1, <2>1, <2>3, FarAbove, Zenon
    <2>5. TryEntry(v, p) /\ p \in 0..100 \cup {Unknown}
      BY <1>4, <1>10
    <2> HIDE DEF v
    <2>. QED
      BY <1>3, <2>1, <2>2, <2>4, <2>5, TryEntryKeeps
  <1>11. \/ side # "NONE" /\ CreateExit
         \/ side # "NONE" /\ Hold /\ entered' = IF f[10] = entered THEN entered ELSE Unknown
         \/ side = "NONE" /\ ~m.ready /\ Hold /\ UNCHANGED entered
         \/ side = "NONE" /\ m.ready /\ TryEntry(MultiVerdict(f, z, m), f[10])
    BY DEF CheckMultiHorizon, z
  <1>. QED
    BY <1>7, <1>8, <1>9, <1>10, <1>11

(* A check of one probability, which leaves the samples alone.             *)
LEMMA SingleKeeps ==
    ASSUME FilterInv, NEW p \in Lone, NEW m \in Markets, CheckEntry(p, m)
    PROVE  FilterInv'
  <1>1. SamplesOK' /\ history' = history /\ FilterTypeOK
    BY DEF FilterInv, FilterTypeOK, SamplesOK, CheckEntry
  <1>2. CASE side # "NONE" /\ CreateExit
    BY <1>1, <1>2, CreateExitKeeps
  <1>3. CASE Hold /\ UNCHANGED entered
    <2>1. side' = side /\ entered' = entered
      BY <1>3 DEF Hold
    <2>2. entered' \in 0..100 \cup {Unknown} /\ EntersCalibrated' /\ SideTaken'
      BY <1>1, <2>1 DEF FilterInv, FilterTypeOK, EntersCalibrated, SideTaken
    <2>. QED
      BY <1>1, <1>3, <2>2, HoldKeeps
  <1>4. CASE m.ready /\ TryEntry(SingleVerdict(p, m), Unknown)
    <2> DEFINE v == SingleVerdict(p, m)
    <2>1. CountsItself(v)
      BY <1>4, SingleCounts
    <2>2. Unknown \in 0..100 \cup {Unknown}
      OBVIOUS
    <2>3. TryEntry(v, Unknown)
      BY <1>4
    <2> HIDE DEF v
    <2>. QED
      BY <1>1, <2>1, <2>2, <2>3, TryEntryKeeps
  <1>5. \/ side # "NONE" /\ CreateExit
        \/ Hold /\ UNCHANGED entered
        \/ m.ready /\ TryEntry(SingleVerdict(p, m), Unknown)
    BY DEF CheckEntry
  <1>. QED
    BY <1>2, <1>3, <1>4, <1>5

(* A check before the first bar.                                           *)
LEMMA BarlessKeeps ==
    ASSUME FilterInv, CheckWithoutBars
    PROVE  FilterInv'
  <1>1. side = "NONE" /\ Hold /\ UNCHANGED entered
    BY DEF CheckWithoutBars
  <1>2. entered = Unknown
    BY <1>1 DEF FilterInv, SideTaken
  <1>3. entered' \in 0..100 \cup {Unknown} /\ EntersCalibrated' /\ SideTaken'
    BY <1>1, <1>2 DEF EntersCalibrated, SideTaken
  <1>4. SamplesOK'
    <2>1. SamplesOK
      BY DEF FilterInv, FilterTypeOK
    <2>2. CASE history' = history
      BY <2>1, <2>2 DEF SamplesOK
    <2>3. ASSUME NEW f \in Forecasts, history' = Recorded(f)
          PROVE  SamplesOK'
      BY <2>1, <2>3, RecordedIs DEF SamplesOK
    <2>. QED
      BY <2>2, <2>3 DEF CheckWithoutBars
  <1>. QED
    BY <1>1, <1>3, <1>4, HoldKeeps

(* Nothing recorded, nothing counted.                                      *)
LEMMA EmptyFilter == TrendInit => FilterInv
  <1> SUFFICES ASSUME TrendInit PROVE FilterInv
    OBVIOUS
  <1>1. SamplesOK
    <2>1. WindowSize \in Nat
      BY TrendFilterAssumption
    <2>. QED
      BY <2>1 DEF TrendInit, SamplesOK
  <1>2. FilterTypeOK
    BY <1>1 DEF TrendInit, FilterTypeOK
  <1>3. \A c \in Counters : filterStats[c] = 0
    BY DEF TrendInit
  <1>4. EntrySignals = 0 /\ Rejections = 0
    BY <1>3 DEF EntrySignals, Rejections, Counters
  <1>5. PositionCounted
    BY <1>4 DEF TrendInit, PositionCounted
  <1>6. ChecksCounted
    BY <1>3, <1>4 DEF TrendInit, ChecksCounted, Counters
  <1>. QED
    BY <1>2, <1>5, <1>6 DEF TrendInit, FilterInv, EntersCalibrated, SideTaken

(* Every step of the engine keeps the filter's invariant.                  *)
LEMMA FilterKeeps == FilterInv /\ [TrendNext]_filterVars => FilterInv'
  <1> SUFFICES ASSUME FilterInv, [TrendNext]_filterVars PROVE FilterInv'
    OBVIOUS
  <1>1. CASE ResetEngine
    <2>1. TrendInit' => FilterInv'
      BY EmptyFilter, PTL
    <2>2. TrendInit'
      BY <1>1 DEF ResetEngine, TrendInit
    <2>. QED
      BY <2>1, <2>2
  <1>2. CASE UNCHANGED filterVars
    BY <1>2 DEF filterVars, FilterInv, FilterTypeOK, SamplesOK, PositionCounted, ChecksCounted,
                EntersCalibrated, SideTaken, EntrySignals, Rejections
  <1>. QED
    BY <1>1, <1>2, BarlessKeeps, SingleKeeps, MultiKeeps DEF TrendNext

(* What is promised of the engine.                                         *)
LEMMA FilterFollows == FilterInv => TrendFilterSound
  <1> SUFFICES ASSUME FilterInv PROVE TrendFilterSound
    OBVIOUS
  <1>1. SteadyForecastHolds
    <2>1. SUFFICES ASSUME entered # Unknown, NEW f \in Forecasts, f[10] = entered
                   PROVE  ~Reversed(f, Recorded(f))
      BY DEF SteadyForecastHolds
    <2>2. SamplesOK /\ 10 \in Horizons
      BY DEF FilterInv, FilterTypeOK, Horizons
    <2>3. PICK t : /\ t = Recorded(f)[10] /\ t \in Seq(0..100)
                   /\ \A V : f[10] \in V /\ Mostly(history[10], V) => Mostly(t, V)
      BY <2>2, RecordedIs
    <2>4. PICK p \in 0..100 : p = f[10] /\ p = entered
      BY <2>1, <2>2, RecordedIs
    <2>5. p \in 0..p /\ p \in p..100
      OBVIOUS
    <2>6. \/ side = "LONG" /\ Mostly(t, 0..p)
          \/ side = "SHORT" /\ Mostly(t, p..100)
      <3>1. \/ side = "LONG" /\ Mostly(history[10], 0..p)
            \/ side = "SHORT" /\ Mostly(history[10], p..100)
        BY <2>1, <2>4 DEF FilterInv, SideTaken
      <3>2. \A V : p \in V /\ Mostly(history[10], V) => Mostly(t, V)
        BY <2>3, <2>4
      <3>3. /\ Mostly(history[10], 0..p) => Mostly(t, 0..p)
            /\ Mostly(history[10], p..100) => Mostly(t, p..100)
        BY <2>5, <3>2, Zenon
      <3>. QED
        BY <3>1, <3>3
    <2>7. /\ ZAbove(t, p, 2) => ~Mostly(t, p..100)
          /\ ZBelow(t, p, 2) => ~Mostly(t, 0..p)
      BY <2>3, FarAbove, Zenon
    <2>8. \/ side = "LONG" /\ ~ZBelow(t, p, 2)
          \/ side = "SHORT" /\ ~ZAbove(t, p, 2)
      BY <2>6, <2>7
    <2>. QED
      BY <2>3, <2>4, <2>8 DEF Reversed
  <1>. QED
    BY <1>1 DEF FilterInv, TrendFilterSound

-----------------------------------------------------------------------------
(* The trend engine's decisions.  The indicators and the filter share      *)
(* nothing, so that their invariants hold together.                        *)
TrendInv == IndicatorsInv /\ FilterInv

(* Each of the two keeps its invariant, whatever the others do.            *)
THEOREM TrendInvariant == Spec => []TrendInv
  <1>1. Init => TrendInv
    <2>1. IndicatorsInit => IndicatorsInv
      BY EmptyIndicators DEF IndicatorsInit
    <2>. QED
      BY <2>1, EmptyFilter DEF Init, WorkbenchInit, TrendInv
  <1>2. TrendInv /\ [Next]_componentVars => TrendInv'
    <2>1. [Next]_componentVars => [IndicatorsNext]_indicatorVars /\ [TrendNext]_filterVars
      BY DEF Next, componentVars, workbenchVars, BrokerPart, CandlePart, BackfillPart,
             BacktestPart, ContractPart, WorkbenchPart, WorkbenchNext, SeriesPart, TrainingPart,
             ReplayPart, IndicatorsPart, FilterPart, SupportPart
    <2>. QED
      BY <2>1, IndicatorsKeep, FilterKeeps DEF TrendInv
  <1>. QED
    BY <1>1, <1>2, PTL DEF Spec

(* The indicators are those of the whole history although only windows of  *)
(* it are kept, and the filter counts what it decides, opens a position by *)
(* z-scores only when there are samples enough, and does not reverse it    *)
(* while the forecast that opened it comes again.                          *)
THEOREM TrendIsSound == Spec => []TrendSound
  <1>1. TrendInv => TrendSound
    BY IndicatorsFollow, FilterFollows DEF TrendInv, TrendSound
  <1>. QED
    BY <1>1, TrendInvariant, PTL

-----------------------------------------------------------------------------
(* The files of the training scripts                                       *)

(* The scores a script gives its epochs, and what the first has to beat.   *)
Scores(k) == IF k = "regressor" THEN Losses \cup {NaN} ELSE Accuracies
Unbeaten(k) == IF k = "regressor" THEN Infinity ELSE 0

(* Epochs that beat all the epochs before them.                            *)
RecordsIn(s, k) ==
    {e \in DOMAIN s : Beats(k, s[e], Worst(k)) /\ \A d \in 1..e - 1 : Beats(k, s[e], s[d])}

(* The best score and the epochs since, as far as a run has come.          *)
LearnedFrom(s, k, b, w) ==
    /\ w \in 0..Len(s) /\ b \in Scores(k) \cup {Unbeaten(k)}
    /\ \A d \in DOMAIN s : ~Beats(k, s[d], b)
    /\ \A d \in RecordsIn(s, k) : d <= Len(s) - w
    /\ w = Len(s) => b = Unbeaten(k)
    /\ w < Len(s) => Len(s) - w \in RecordsIn(s, k) /\ b = s[Len(s) - w]

(* A score that beats the best so far beats them all.                      *)
LEMMA BeatsAll ==
    ASSUME NEW k \in Scripts, NEW x \in Scores(k), NEW y \in Scores(k),
           NEW b \in Scores(k) \cup {Unbeaten(k)}, Beats(k, x, b)
    PROVE  /\ Beats(k, x, Worst(k))
           /\ ~Beats(k, y, b) => Beats(k, x, y)
  <1>. USE TrainingAssumption DEF Infinity, NaN
  <1>1. CASE k = "regressor"
    BY <1>1 DEF Scores, Unbeaten, Beats, Worst
  <1>2. CASE k # "regressor"
    BY <1>2 DEF Scores, Unbeaten, Beats, Worst
  <1>. QED
    BY <1>1, <1>2

(* This is what the scripts ask; of two scores one at most beats the other. *)
LEMMA BeatsIs ==
    ASSUME NEW k \in Scripts, NEW x \in Scores(k), NEW b \in Scores(k) \cup {Unbeaten(k)}
    PROVE  /\ k = "regressor" => (Beats(k, x, b) <=> x # NaN /\ x < b)
           /\ k # "regressor" => (Beats(k, x, b) <=> x > b)
           /\ ~Beats(k, x, x) /\ ~(Beats(k, x, b) /\ Beats(k, b, x))
           /\ Beats(k, x, Worst(k)) => Beats(k, x, Unbeaten(k))
  <1>. USE TrainingAssumption DEF Infinity, NaN
  <1>1. CASE k = "regressor"
    BY <1>1 DEF Scores, Unbeaten, Beats, Worst
  <1>2. CASE k # "regressor"
    BY <1>2 DEF Scores, Unbeaten, Beats, Worst
  <1>. QED
    BY <1>1, <1>2

(* One epoch more: it is a record if it beats the best so far.             *)
LEMMA EpochLearned ==
    ASSUME NEW k \in Scripts, NEW s \in Seq(Scores(k)), NEW b, NEW w, LearnedFrom(s, k, b, w),
           NEW x \in Scores(k)
    PROVE  LET t == Append(s, x)
           IN  /\ Beats(k, x, b) =>
                    /\ RecordsIn(t, k) = RecordsIn(s, k) \cup {Len(s) + 1}
                    /\ LearnedFrom(t, k, x, 0)
               /\ ~Beats(k, x, b) =>
                    /\ RecordsIn(t, k) = RecordsIn(s, k)
                    /\ LearnedFrom(t, k, b, w + 1)
  <1> DEFINE t == Append(s, x)
             n == Len(s)
  <1>1. /\ n \in Nat /\ Len(t) = n + 1 /\ DOMAIN s = 1..n /\ DOMAIN t = 1..n + 1
        /\ t[n + 1] = x /\ \A i \in 1..n : t[i] = s[i] /\ s[i] \in Scores(k)
    OBVIOUS
  <1>2. /\ w \in 0..n /\ b \in Scores(k) \cup {Unbeaten(k)}
        /\ \A d \in 1..n : ~Beats(k, s[d], b)
        /\ \A d \in RecordsIn(s, k) : d <= n - w
        /\ w = n => b = Unbeaten(k)
        /\ w < n => n - w \in RecordsIn(s, k) /\ b = s[n - w]
    BY <1>1 DEF LearnedFrom
  <1>. HIDE DEF t, n
  <1>3. \A e \in 1..n : e \in RecordsIn(t, k) <=> e \in RecordsIn(s, k)
    <2>1. ASSUME NEW e \in 1..n
          PROVE  e \in RecordsIn(t, k) <=> e \in RecordsIn(s, k)
      <3>1. e \in DOMAIN s /\ e \in DOMAIN t /\ t[e] = s[e]
        BY <1>1, <2>1
      <3>2. \A d \in 1..e - 1 : t[d] = s[d]
        BY <1>1, <2>1
      <3>. QED
        BY <3>1, <3>2 DEF RecordsIn
    <2>. QED
      BY <2>1
  <1>4. RecordsIn(s, k) \subseteq 1..n /\ RecordsIn(t, k) \subseteq 1..n + 1
    BY <1>1 DEF RecordsIn
  <1>5. n + 1 \in RecordsIn(t, k) <=> Beats(k, x, Worst(k)) /\ \A d \in 1..n : Beats(k, x, s[d])
    <2>1. n + 1 \in DOMAIN t /\ (n + 1) - 1 = n
      BY <1>1
    <2>2. \A d \in 1..n : t[d] = s[d]
      BY <1>1
    <2>. QED
      BY <1>1, <2>1, <2>2 DEF RecordsIn
  <1>6. CASE Beats(k, x, b)
    <2>1. Beats(k, x, Worst(k))
      BY <1>2, <1>6, BeatsAll
    <2>2. \A d \in 1..n : Beats(k, x, s[d])
      BY <1>1, <1>2, <1>6, BeatsAll
    <2>3. RecordsIn(t, k) = RecordsIn(s, k) \cup {n + 1}
      BY <1>1, <1>3, <1>4, <1>5, <2>1, <2>2
    <2>4. \A d \in 1..n + 1 : ~Beats(k, t[d], x)
      <3>1. ~Beats(k, x, x)
        BY BeatsIs
      <3>2. \A d \in 1..n : ~Beats(k, s[d], x)
        <4>1. ASSUME NEW d \in 1..n, Beats(k, s[d], x) PROVE FALSE
          <5>1. s[d] \in Scores(k) /\ Beats(k, x, s[d])
            BY <1>1, <2>2
          <5>. QED
            BY <4>1, <5>1, BeatsIs
        <4>. QED
          BY <4>1
      <3>. QED
        BY <1>1, <3>1, <3>2
    <2>5. LearnedFrom(t, k, x, 0)
      <3>1. n + 1 \in RecordsIn(t, k) /\ \A d \in RecordsIn(t, k) : d <= n + 1
        BY <1>1, <1>4, <2>3
      <3>. QED
        BY <1>1, <2>4, <3>1 DEF LearnedFrom
    <2>. QED
      BY <1>6, <2>3, <2>5 DEF t, n
  <1>7. CASE ~Beats(k, x, b)
    <2>1. n + 1 \notin RecordsIn(t, k)
      <3>1. CASE w = n
        BY <1>2, <1>5, <1>7, <3>1, BeatsIs
      <3>2. CASE w # n
        <4>1. n - w \in 1..n /\ b = s[n - w]
          BY <1>1, <1>2, <3>2
        <4>. QED
          BY <1>5, <1>7, <4>1
      <3>. QED
        BY <3>1, <3>2
    <2>2. RecordsIn(t, k) = RecordsIn(s, k)
      <3>1. \A e \in 1..n + 1 : e # n + 1 => e \in 1..n
        BY <1>1
      <3>. QED
        BY <1>3, <1>4, <2>1, <3>1
    <2>3. \A d \in 1..n + 1 : ~Beats(k, t[d], b)
      BY <1>1, <1>2, <1>7
    <2>4. LearnedFrom(t, k, b, w + 1)
      <3>1. w + 1 \in 0..n + 1 /\ (n + 1) - (w + 1) = n - w
        BY <1>1, <1>2
      <3>2. w + 1 = n + 1 => b = Unbeaten(k)
        BY <1>1, <1>2
      <3>3. w + 1 < n + 1 => n - w \in RecordsIn(t, k) /\ b = t[n - w]
        BY <1>1, <1>2, <2>2
      <3>4. \A d \in RecordsIn(t, k) : d <= n - w
        BY <1>2, <2>2
      <3>. QED
        BY <1>1, <1>2, <2>3, <3>1, <3>2, <3>3, <3>4 DEF LearnedFrom
    <2>. QED
      BY <1>7, <2>2, <2>4 DEF t, n
  <1>. QED
    BY <1>6, <1>7

-----------------------------------------------------------------------------
(* The records of a run in a list of runs, the runs into an output that    *)
(* had any, and the model they left.                                       *)
RecordsOf(rs, r) == RecordsIn(rs[r].scores, rs[r].script)
Able(rs, o) == {r \in DOMAIN rs : rs[r].output = o /\ RecordsOf(rs, r) # {}}
KeptIn(rs, m, o) ==
    \/ Able(rs, o) = {} /\ m.run = NoRun
    \/ /\ m.run \in Able(rs, o) /\ \A r \in Able(rs, o) : r <= m.run
       /\ m.epoch \in RecordsOf(rs, m.run) /\ \A e \in RecordsOf(rs, m.run) : e <= m.epoch

RunRecords == [script : Scripts, output : Outputs, scores : Seq(Nat)]
RunTypeOK ==
    /\ runs \in Seq(RunRecords)
    /\ \A r \in DOMAIN runs : runs[r].scores \in Seq(Scores(runs[r].script))
    /\ training \in BOOLEAN /\ (training => Run > 0)
    /\ models \in [Outputs -> [run : Nat \cup {NoRun}, epoch : Nat]]
    /\ metas \in [Outputs -> [run : Nat \cup {NoRun}, of : Nat \cup {NoRun}]]

(* A run under way knows its best epoch and has not waited too long; it    *)
(* has written the scaler and no metadata yet.                             *)
RunUnderWay ==
    training => /\ LearnedFrom(ThisRun.scores, ThisRun.script, best, waiting)
                /\ waiting <= Patience
                /\ \A o \in Outputs : metas[o].run # Run

FilesOfRuns ==
    /\ scaler = IF Run = 0 THEN NoRun ELSE Run
    /\ \A o \in Outputs : IF metas[o].run = NoRun THEN metas[o].of = NoRun
                         ELSE metas[o].run \in DOMAIN runs

TrainingInv ==
    /\ RunTypeOK /\ RunUnderWay /\ FilesOfRuns /\ MetadataFit
    /\ \A o \in Outputs : KeptIn(runs, models[o], o)

LEMMA RecordsAre == \A r : Records(r) = RecordsOf(runs, r)
BY DEF Records, RecordsOf, RecordsIn

LEMMA BestIsKeptIn ==
    BestIsKept <=> \A o \in Outputs : KeptIn(runs, models[o], o)
  <1>1. \A o : {r \in RunsOf(o) : Records(r) # {}} = Able(runs, o)
    BY RecordsAre DEF RunsOf, Able
  <1>. QED
    BY <1>1, RecordsAre DEF BestIsKept, KeptIn

(* Scores are numbers.                                                     *)
LEMMA ScoresAreNumbers == \A k : Scores(k) \subseteq Nat
BY TrainingAssumption DEF Scores, NaN, Infinity

(* A run that has just begun has no records and leaves those of the others *)
LEMMA NewRunIsUnable ==
    ASSUME NEW rs \in Seq(RunRecords),
           NEW k \in Scripts, NEW p \in Outputs
    PROVE  LET ts == Append(rs, [script |-> k, output |-> p, scores |-> <<>>])
           IN  /\ ts \in Seq(RunRecords)
               /\ Len(ts) = Len(rs) + 1 /\ DOMAIN ts = 1..Len(rs) + 1
               /\ ts[Len(rs) + 1] = [script |-> k, output |-> p, scores |-> <<>>]
               /\ \A r \in DOMAIN rs : r \in DOMAIN ts /\ ts[r] = rs[r]
               /\ \A r \in DOMAIN rs : RecordsOf(ts, r) = RecordsOf(rs, r)
               /\ \A o : Able(ts, o) = Able(rs, o)
               /\ LearnedFrom(<<>>, k, Unbeaten(k), 0)
  <1> DEFINE run == [script |-> k, output |-> p, scores |-> <<>>]
             ts == Append(rs, run)
             n == Len(rs)
  <1>1. run \in RunRecords
    BY DEF RunRecords
  <1>2. run.script = k /\ run.scores = <<>> /\ run.output = p
    OBVIOUS
  <1>. HIDE DEF run
  <1>3. /\ ts \in Seq(RunRecords)
        /\ n \in Nat /\ Len(ts) = n + 1 /\ DOMAIN rs = 1..n /\ DOMAIN ts = 1..n + 1
        /\ ts[n + 1] = run /\ \A r \in 1..n : ts[r] = rs[r]
    BY <1>1
  <1>. HIDE DEF ts, n
  <1>4. \A r \in 1..n : RecordsOf(ts, r) = RecordsOf(rs, r)
    BY <1>3 DEF RecordsOf
  <1>5. RecordsIn(<<>>, k) = {}
    BY DEF RecordsIn
  <1>6. RecordsOf(ts, n + 1) = {}
    BY <1>2, <1>3, <1>5 DEF RecordsOf
  <1>7. \A o : Able(ts, o) = Able(rs, o)
    <2>1. \A r \in 1..n + 1 : r \in 1..n \/ r = n + 1
      BY <1>3
    <2>2. \A r \in 1..n : r \in 1..n + 1
      BY <1>3
    <2>. QED
      BY <1>3, <1>4, <1>6, <2>1, <2>2 DEF Able
  <1>8. LearnedFrom(<<>>, k, Unbeaten(k), 0)
    BY <1>5 DEF LearnedFrom
  <1>9. \A r \in DOMAIN rs : r \in DOMAIN ts /\ ts[r] = rs[r]
    BY <1>3
  <1>. QED
    BY <1>3, <1>4, <1>7, <1>8, <1>9 DEF run, ts, n

(* Where the last run learns on, and its model is saved if it has a new    *)
(* record, every output has the model it should have.                      *)
LastLearns(rs, ts, n) ==
    /\ n \in Nat /\ n > 0 /\ DOMAIN rs = 1..n /\ DOMAIN ts = 1..n
    /\ \A r \in 1..n : ts[r].output = rs[r].output
    /\ \A r \in 1..n - 1 : RecordsOf(ts, r) = RecordsOf(rs, r)

LEMMA OthersAreKept ==
    ASSUME NEW rs, NEW ts, NEW n, LastLearns(rs, ts, n), NEW o, NEW m, KeptIn(rs, m, o),
           RecordsOf(ts, n) = RecordsOf(rs, n) \/ rs[n].output # o
    PROVE  KeptIn(ts, m, o)
  <1>1. \A r \in 1..n : r \in 1..n - 1 \/ r = n
    BY DEF LastLearns
  <1>2. \A r \in 1..n : rs[r].output = o => RecordsOf(ts, r) = RecordsOf(rs, r)
    BY <1>1 DEF LastLearns
  <1>3. Able(ts, o) = Able(rs, o)
    BY <1>2 DEF Able, LastLearns
  <1>4. \A r \in Able(rs, o) : RecordsOf(ts, r) = RecordsOf(rs, r)
    BY <1>2 DEF Able, LastLearns
  <1>. QED
    BY <1>3, <1>4 DEF KeptIn

LEMMA NewRecordIsKept ==
    ASSUME NEW rs, NEW ts, NEW n, LastLearns(rs, ts, n), NEW o, rs[n].output = o,
           NEW e \in Nat, RecordsOf(ts, n) = RecordsOf(rs, n) \cup {e},
           \A d \in RecordsOf(rs, n) : d <= e
    PROVE  KeptIn(ts, [run |-> n, epoch |-> e], o)
  <1>1. n \in 1..n /\ \A r \in 1..n : r <= n
    BY DEF LastLearns
  <1>2. n \in Able(ts, o)
    BY <1>1 DEF Able, LastLearns
  <1>3. \A r \in Able(ts, o) : r <= n
    BY <1>1 DEF Able, LastLearns
  <1>4. e <= e
    OBVIOUS
  <1>. QED
    BY <1>2, <1>3, <1>4 DEF KeptIn

(* The steps of a run, one by one.                                         *)
LEMMA BeginKeeps ==
    ASSUME TrainingInv, NEW k \in Scripts, NEW p \in Outputs, BeginRun(k, p, Unbeaten(k))
    PROVE  TrainingInv'
  <1> DEFINE ts == Append(runs, [script |-> k, output |-> p, scores |-> <<>>])
             n == Len(runs)
  <1>1. /\ runs \in Seq(RunRecords)
        /\ \A r \in DOMAIN runs : runs[r].scores \in Seq(Scores(runs[r].script))
        /\ DOMAIN runs = 1..n /\ n \in Nat
    BY DEF TrainingInv, RunTypeOK
  <1>2. /\ runs' = ts /\ training' = TRUE /\ scaler' = n + 1
        /\ best' = Unbeaten(k) /\ waiting' = 0
        /\ models' = models /\ metas' = metas
    BY DEF BeginRun, Run
  <1>3. /\ ts \in Seq(RunRecords)
        /\ Len(ts) = n + 1 /\ DOMAIN ts = 1..n + 1
        /\ ts[n + 1].scores = <<>> /\ ts[n + 1].script = k
        /\ \A r \in 1..n : r \in 1..n + 1 /\ ts[r] = runs[r] /\ RecordsOf(ts, r) = RecordsOf(runs, r)
        /\ \A o : Able(ts, o) = Able(runs, o)
        /\ LearnedFrom(<<>>, k, Unbeaten(k), 0)
    <2>1. [script |-> k, output |-> p, scores |-> <<>>].scores = <<>>
      OBVIOUS
    <2>2. [script |-> k, output |-> p, scores |-> <<>>].script = k
      OBVIOUS
    <2>. HIDE DEF ts
    <2>3. /\ ts \in Seq(RunRecords)
          /\ Len(ts) = n + 1 /\ DOMAIN ts = 1..n + 1
          /\ ts[n + 1] = [script |-> k, output |-> p, scores |-> <<>>]
      BY <1>1, NewRunIsUnable DEF ts
    <2>4. /\ \A r \in DOMAIN runs : r \in DOMAIN ts /\ ts[r] = runs[r]
          /\ \A r \in DOMAIN runs : RecordsOf(ts, r) = RecordsOf(runs, r)
          /\ \A o : Able(ts, o) = Able(runs, o)
          /\ LearnedFrom(<<>>, k, Unbeaten(k), 0)
      BY <1>1, NewRunIsUnable DEF ts
    <2>. QED
      BY <1>1, <2>1, <2>2, <2>3, <2>4
  <1>. HIDE DEF ts, n
  <1>4. RunTypeOK'
    <2>1. \A r \in 1..n + 1 : ts[r].scores \in Seq(Scores(ts[r].script))
      <3>1. \A r \in 1..n + 1 : r \in 1..n \/ r = n + 1
        BY <1>1
      <3>2. <<>> \in Seq(Scores(k))
        OBVIOUS
      <3>. QED
        BY <1>1, <1>3, <3>1, <3>2
    <2>2. n + 1 > 0
      BY <1>1
    <2>. QED
      BY <1>2, <1>3, <2>1, <2>2 DEF RunTypeOK, Run, TrainingInv
  <1>5. RunUnderWay'
    <2>1. 0 <= Patience
      BY TrainingAssumption
    <2>2. \A o \in Outputs : metas[o].run # n + 1
      <3>1. \A o \in Outputs : metas[o].run # NoRun => metas[o].run \in 1..n
        BY <1>1 DEF TrainingInv, FilesOfRuns
      <3>2. n + 1 # NoRun /\ n + 1 \notin 1..n
        BY <1>1, TrainingAssumption
      <3>. QED
        BY <3>1, <3>2
    <2>. QED
      BY <1>2, <1>3, <2>1, <2>2 DEF RunUnderWay, Run, ThisRun
  <1>6. FilesOfRuns'
    <2>1. n + 1 # 0
      BY <1>1
    <2>. QED
      BY <1>1, <1>2, <1>3, <2>1 DEF FilesOfRuns, Run, TrainingInv
  <1>7. MetadataFit'
    <2>1. \A r : Records(r)' = RecordsOf(ts, r)
      BY <1>2 DEF Records, RecordsOf, RecordsIn
    <2>2. ASSUME NEW o \in Outputs PROVE
             /\ metas[o].run # metas[o].of => RecordsOf(ts, metas[o].run) = {}
             /\ metas[o].run # NoRun /\ models[o].run = NoRun => ts[metas[o].run].script = "lstm"
      <3>1. /\ metas[o].run # metas[o].of => RecordsOf(runs, metas[o].run) = {}
            /\ metas[o].run # NoRun /\ models[o].run = NoRun => runs[metas[o].run].script = "lstm"
            /\ metas[o].run # NoRun => metas[o].run \in 1..n
        BY <1>1, <2>2, RecordsAre DEF TrainingInv, MetadataFit, FilesOfRuns
      <3>2. CASE metas[o].run # NoRun
        BY <1>3, <3>1, <3>2
      <3>3. CASE metas[o].run = NoRun
        BY <2>2, <3>3 DEF TrainingInv, FilesOfRuns
      <3>. QED
        BY <3>2, <3>3
    <2>. QED
      BY <1>2, <2>1, <2>2 DEF MetadataFit
  <1>8. \A o \in Outputs : KeptIn(runs, models[o], o)'
    <2>1. ASSUME NEW o \in Outputs PROVE KeptIn(ts, models[o], o)
      <3>1. KeptIn(runs, models[o], o) /\ Able(ts, o) = Able(runs, o)
        BY <1>3, <2>1 DEF TrainingInv
      <3>2. \A r \in Able(runs, o) : RecordsOf(ts, r) = RecordsOf(runs, r)
        BY <1>1, <1>3 DEF Able
      <3>. QED
        BY <3>1, <3>2 DEF KeptIn
    <2>. QED
      BY <1>2, <2>1
  <1>. QED
    BY <1>4, <1>5, <1>6, <1>7, <1>8 DEF TrainingInv

LEMMA LearnKeeps ==
    ASSUME TrainingInv, NEW k \in Scripts, NEW x \in Scores(k), NEW improves \in BOOLEAN,
           Learn(k, x, improves),
           best \in Scores(k) \cup {Unbeaten(k)} => improves = Beats(k, x, best)
    PROVE  TrainingInv'
  <1> DEFINE n == Len(runs)
             s == runs[n].scores
             p == runs[n].output
             ts == [runs EXCEPT ![n].scores = Append(@, x)]
  <1>1. /\ runs \in Seq(RunRecords) /\ \A r \in 1..n : runs[r] \in RunRecords
        /\ \A r \in 1..n : runs[r].scores \in Seq(Scores(runs[r].script))
        /\ DOMAIN runs = 1..n /\ n \in Nat /\ n > 0 /\ n \in 1..n
        /\ n - 1 \in Nat /\ \A r \in 1..n : r \in 1..n - 1 \/ r = n
        /\ \A r \in 1..n - 1 : r \in 1..n /\ r # n
    BY DEF TrainingInv, RunTypeOK, Run, Learn
  <1>2. /\ training /\ runs[n].script = k /\ runs' = ts /\ training' = training
        /\ waiting < Patience
        /\ scaler' = scaler /\ metas' = metas
        /\ \/ /\ improves /\ best' = x /\ waiting' = 0
              /\ models' = [models EXCEPT ![p] = [run |-> n, epoch |-> Len(s) + 1]]
           \/ ~improves /\ best' = best /\ waiting' = waiting + 1 /\ models' = models
    BY DEF Learn, Run, ThisRun, Epoch
  <1>3. /\ s \in Seq(Scores(k)) /\ p \in Outputs /\ k \in Scripts /\ Len(s) \in Nat
        /\ s \in Seq(Nat) /\ x \in Nat
    <2>1. runs[n] \in RunRecords
      BY <1>1
    <2>2. s \in Seq(Nat) /\ p \in Outputs
      BY <2>1 DEF RunRecords
    <2>3. s \in Seq(Scores(k))
      BY <1>1, <1>2
    <2>. HIDE DEF s
    <2>. QED
      BY <2>2, <2>3, ScoresAreNumbers
  <1>4. /\ LearnedFrom(s, k, best, waiting) /\ waiting <= Patience
        /\ \A o \in Outputs : metas[o].run # n
    BY <1>2 DEF TrainingInv, RunUnderWay, Run, ThisRun
  <1>5. improves = Beats(k, x, best)
    BY <1>4 DEF LearnedFrom
  <1>6. /\ Len(ts) = n /\ DOMAIN ts = 1..n
        /\ ts \in Seq(RunRecords)
        /\ ts[n].scores = Append(s, x) /\ ts[n].script = k /\ ts[n].output = p
        /\ \A r \in 1..n - 1 : ts[r] = runs[r]
    <2>1. Append(s, x) \in Seq(Nat)
      BY <1>3
    <2>2. runs[n] \in RunRecords
      BY <1>1
    <2>3. [runs[n] EXCEPT !.scores = Append(s, x)] \in RunRecords
      BY <2>1, <2>2 DEF RunRecords
    <2>4. ts = [runs EXCEPT ![n] = [runs[n] EXCEPT !.scores = Append(s, x)]]
      BY <1>1
    <2>5. [runs[n] EXCEPT !.scores = Append(s, x)].scores = Append(s, x)
      BY <2>2 DEF RunRecords
    <2>6. /\ [runs[n] EXCEPT !.scores = Append(s, x)].script = k
          /\ [runs[n] EXCEPT !.scores = Append(s, x)].output = p
      BY <1>2, <2>2 DEF RunRecords
    <2>. HIDE DEF ts, s
    <2>. DEFINE run == [runs[n] EXCEPT !.scores = Append(s, x)]
    <2>. HIDE DEF run
    <2>7. ts = [runs EXCEPT ![n] = run] /\ run \in RunRecords
      BY <2>3, <2>4 DEF run
    <2>8. run.scores = Append(s, x) /\ run.script = k /\ run.output = p
      BY <2>5, <2>6 DEF run
    <2>. HIDE DEF n, p
    <2>9. /\ ts \in Seq(RunRecords)
          /\ DOMAIN ts = 1..n /\ ts[n] = run /\ \A r \in 1..n - 1 : ts[r] = runs[r]
      BY <1>1, <2>7
    <2>10. Len(ts) = n
      BY <1>1, <2>9
    <2>. QED
      BY <2>8, <2>9, <2>10
  <1>. HIDE DEF ts, n, s, p
  <1>7. /\ improves => /\ RecordsOf(ts, n) = RecordsOf(runs, n) \cup {Len(s) + 1}
                       /\ LearnedFrom(Append(s, x), k, x, 0)
        /\ ~improves => /\ RecordsOf(ts, n) = RecordsOf(runs, n)
                        /\ LearnedFrom(Append(s, x), k, best, waiting + 1)
    <2>1. RecordsOf(runs, n) = RecordsIn(s, k) /\ RecordsOf(ts, n) = RecordsIn(Append(s, x), k)
      BY <1>2, <1>6 DEF RecordsOf, s
    <2>. QED
      BY <1>3, <1>4, <1>5, <2>1, EpochLearned
  <1>8. \A r \in 1..n - 1 : RecordsOf(ts, r) = RecordsOf(runs, r)
    BY <1>6 DEF RecordsOf
  <1>9. \A d \in RecordsOf(runs, n) : d <= Len(s) + 1
    <2>1. RecordsOf(runs, n) \subseteq 1..Len(s)
      BY <1>3 DEF RecordsOf, RecordsIn, s
    <2>. QED
      BY <1>3, <2>1
  <1>10. models \in [Outputs -> [run : Nat \cup {NoRun}, epoch : Nat]]
    BY DEF TrainingInv, RunTypeOK
  <1>11. RunTypeOK'
    <2>1. \A r \in 1..n : ts[r].scores \in Seq(Scores(ts[r].script))
      <3>1. Append(s, x) \in Seq(Scores(k))
        BY <1>3
      <3>. QED
        BY <1>1, <1>6, <3>1
    <2>2. models' \in [Outputs -> [run : Nat \cup {NoRun}, epoch : Nat]]
      <3>1. [run |-> n, epoch |-> Len(s) + 1] \in [run : Nat \cup {NoRun}, epoch : Nat]
        BY <1>1, <1>3
      <3>. QED
        BY <1>2, <1>3, <1>10, <3>1
    <2>. QED
      BY <1>1, <1>2, <1>6, <2>1, <2>2 DEF RunTypeOK, Run, TrainingInv
  <1>12. RunUnderWay'
    <2>1. 0 <= Patience /\ waiting + 1 <= Patience
      BY <1>2, <1>3, <1>4, TrainingAssumption DEF LearnedFrom
    <2>. QED
      BY <1>2, <1>4, <1>6, <1>7, <2>1 DEF RunUnderWay, Run, ThisRun
  <1>13. FilesOfRuns'
    BY <1>1, <1>2, <1>6 DEF FilesOfRuns, Run, TrainingInv, n
  <1>14. ASSUME NEW o \in Outputs PROVE KeptIn(ts, models'[o], o)
    <2>1. KeptIn(runs, models[o], o)
      BY <1>14 DEF TrainingInv
    <2>2. LastLearns(runs, ts, n)
      BY <1>1, <1>6, <1>8 DEF LastLearns, p
    <2>3. CASE ~improves
      BY <1>2, <1>7, <2>1, <2>2, <2>3, OthersAreKept
    <2>4. CASE improves /\ o # p
      <3>1. models'[o] = models[o] /\ runs[n].output # o
        BY <1>2, <1>10, <1>14, <2>4 DEF p
      <3>. QED
        BY <2>1, <2>2, <3>1, OthersAreKept
    <2>5. CASE improves /\ o = p
      <3>1. models'[o] = [run |-> n, epoch |-> Len(s) + 1] /\ Len(s) + 1 \in Nat /\ runs[n].output = o
        BY <1>2, <1>3, <1>10, <1>14, <2>5 DEF p
      <3>2. KeptIn(ts, [run |-> n, epoch |-> Len(s) + 1], o)
        BY <1>7, <1>9, <2>2, <2>5, <3>1, NewRecordIsKept
      <3>. QED
        BY <3>1, <3>2
    <2>. QED
      BY <2>3, <2>4, <2>5
  <1>15. \A o \in Outputs : KeptIn(runs, models[o], o)'
    BY <1>2, <1>14
  <1>16. MetadataFit'
    <2>1. \A r : Records(r)' = RecordsOf(ts, r)
      BY <1>2 DEF Records, RecordsOf, RecordsIn
    <2>2. ASSUME NEW o \in Outputs PROVE
             /\ metas[o].run # metas[o].of => RecordsOf(ts, metas[o].run) = {}
             /\ metas[o].run # NoRun /\ models'[o].run = NoRun => ts[metas[o].run].script = "lstm"
      <3>1. /\ metas[o].run # metas[o].of => RecordsOf(runs, metas[o].run) = {}
            /\ metas[o].run # NoRun /\ models[o].run = NoRun => runs[metas[o].run].script = "lstm"
            /\ IF metas[o].run = NoRun THEN metas[o].of = NoRun ELSE metas[o].run \in 1..n
            /\ metas[o].run # n
        BY <1>1, <1>4, <2>2, RecordsAre DEF TrainingInv, MetadataFit, FilesOfRuns
      <3>2. models'[o].run = NoRun => models[o].run = NoRun
        <4>1. n # NoRun
          BY <1>1, TrainingAssumption
        <4>2. models'[o] = models[o] \/ models'[o].run = n
          BY <1>2, <1>10, <2>2
        <4>. QED
          BY <4>1, <4>2
      <3>3. CASE metas[o].run # NoRun
        <4>1. metas[o].run \in 1..n - 1
          BY <1>1, <3>1, <3>3
        <4>. QED
          BY <1>6, <1>8, <3>1, <3>2, <4>1
      <3>4. CASE metas[o].run = NoRun
        BY <3>1, <3>4
      <3>. QED
        BY <3>3, <3>4
    <2>. QED
      BY <1>2, <2>1, <2>2 DEF MetadataFit
  <1>. QED
    BY <1>11, <1>12, <1>13, <1>15, <1>16 DEF TrainingInv

LEMMA EndKeeps ==
    ASSUME TrainingInv, training, training' = FALSE, UNCHANGED <<runs, scaler, models>>,
           \/ UNCHANGED metas
           \/ models[ThisRun.output].run # NoRun /\ Report(models[ThisRun.output].run)
           \/ ThisRun.script = "lstm" /\ Report(Run)
    PROVE  TrainingInv'
  <1> DEFINE n == Len(runs)
             p == runs[n].output
  <1>1. /\ DOMAIN runs = 1..n /\ n \in Nat /\ n \in 1..n /\ n # NoRun
        /\ \A r \in 1..n : runs[r] \in RunRecords
        /\ models \in [Outputs -> [run : Nat \cup {NoRun}, epoch : Nat]]
        /\ metas \in [Outputs -> [run : Nat \cup {NoRun}, of : Nat \cup {NoRun}]]
    BY TrainingAssumption DEF TrainingInv, RunTypeOK, Run
  <1>2. p \in Outputs
    BY <1>1 DEF RunRecords
  <1>3. \/ metas' = metas
        \/ metas' = [metas EXCEPT ![p] = [run |-> n, of |-> models[p].run]] /\ models[p].run # NoRun
        \/ metas' = [metas EXCEPT ![p] = [run |-> n, of |-> n]] /\ runs[n].script = "lstm"
    BY DEF Report, ThisRun, Run
  <1>. HIDE DEF n, p
  <1>4. ASSUME NEW o \in Outputs
        PROVE  \/ metas'[o] = metas[o]
               \/ o = p /\ metas'[o] = [run |-> n, of |-> models[o].run] /\ models[o].run # NoRun
               \/ o = p /\ metas'[o] = [run |-> n, of |-> n] /\ runs[n].script = "lstm"
    BY <1>1, <1>2, <1>3, <1>4
  <1>5. RunTypeOK'
    <2>1. [run |-> n, of |-> models[p].run] \in [run : Nat \cup {NoRun}, of : Nat \cup {NoRun}]
      BY <1>1, <1>2
    <2>2. [run |-> n, of |-> n] \in [run : Nat \cup {NoRun}, of : Nat \cup {NoRun}]
      BY <1>1
    <2>3. metas' \in [Outputs -> [run : Nat \cup {NoRun}, of : Nat \cup {NoRun}]]
      BY <1>1, <1>2, <1>3, <2>1, <2>2
    <2>. QED
      BY <2>3 DEF RunTypeOK, TrainingInv
  <1>6. RunUnderWay'
    BY DEF RunUnderWay
  <1>7. FilesOfRuns'
    <2>1. ASSUME NEW o \in Outputs
          PROVE  IF metas'[o].run = NoRun THEN metas'[o].of = NoRun ELSE metas'[o].run \in 1..n
      <3>1. IF metas[o].run = NoRun THEN metas[o].of = NoRun ELSE metas[o].run \in 1..n
        BY <1>1 DEF TrainingInv, FilesOfRuns
      <3>2. CASE metas'[o] = metas[o]
        BY <3>1, <3>2
      <3>3. CASE metas'[o].run = n
        <4>1. metas'[o].run # NoRun /\ metas'[o].run \in 1..n
          BY <1>1, <3>3
        <4>. QED
          BY <4>1
      <3>4. metas'[o] = metas[o] \/ metas'[o].run = n
        <4>1. [run |-> n, of |-> models[o].run].run = n /\ [run |-> n, of |-> n].run = n
          OBVIOUS
        <4>. QED
          BY <1>4, <2>1, <4>1
      <3>. QED
        BY <3>2, <3>3, <3>4
    <2>. QED
      BY <1>1, <2>1 DEF FilesOfRuns, TrainingInv, Run
  <1>8. \A o \in Outputs : KeptIn(runs, models[o], o)'
    BY DEF TrainingInv
  <1>9. MetadataFit'
    <2>1. \A r : Records(r)' = RecordsOf(runs, r)
      BY DEF Records, RecordsOf, RecordsIn
    <2>2. ASSUME NEW o \in Outputs PROVE
             /\ metas'[o].run # metas'[o].of => RecordsOf(runs, metas'[o].run) = {}
             /\ metas'[o].run # NoRun /\ models[o].run = NoRun => runs[metas'[o].run].script = "lstm"
      <3>1. /\ metas[o].run # metas[o].of => RecordsOf(runs, metas[o].run) = {}
            /\ metas[o].run # NoRun /\ models[o].run = NoRun => runs[metas[o].run].script = "lstm"
        BY RecordsAre DEF TrainingInv, MetadataFit
      <3>2. o = p /\ models[o].run # NoRun /\ n # models[o].run => RecordsOf(runs, n) = {}
        <4>1. ASSUME o = p, models[o].run # NoRun, RecordsOf(runs, n) # {}
              PROVE  n = models[o].run
          <5>1. n \in Able(runs, o)
            BY <1>1, <4>1 DEF Able, p
          <5>2. models[o].run \in Able(runs, o) /\ \A r \in Able(runs, o) : r <= models[o].run
            BY <4>1, <5>1 DEF TrainingInv, KeptIn
          <5>3. models[o].run \in 1..n /\ n <= models[o].run
            BY <1>1, <5>1, <5>2 DEF Able
          <5>. QED
            BY <1>1, <5>3
        <4>. QED
          BY <4>1
      <3>3. CASE metas'[o] = metas[o]
        BY <3>1, <3>3
      <3>4. CASE metas'[o] = [run |-> n, of |-> models[o].run] /\ o = p /\ models[o].run # NoRun
        <4>1. metas'[o].run = n /\ metas'[o].of = models[o].run
          BY <3>4
        <4>. QED
          BY <3>2, <3>4, <4>1
      <3>5. CASE metas'[o] = [run |-> n, of |-> n] /\ runs[n].script = "lstm"
        <4>1. metas'[o].run = n /\ metas'[o].of = n
          BY <3>5
        <4>. QED
          BY <3>5, <4>1
      <3>. QED
        BY <1>4, <2>2, <3>3, <3>4, <3>5
    <2>. QED
      BY <2>1, <2>2 DEF MetadataFit
  <1>. QED
    BY <1>5, <1>6, <1>7, <1>8, <1>9 DEF TrainingInv

LEMMA TrainingKeeps == TrainingInv /\ [TrainingNext]_trainingVars => TrainingInv'
  <1>. SUFFICES ASSUME TrainingInv, [TrainingNext]_trainingVars PROVE TrainingInv'
    OBVIOUS
  <1>1. CASE PrepareClassifier \/ PrepareLstm \/ PrepareRegressor
    <2>1. PICK k \in Scripts, p \in Outputs : BeginRun(k, p, Unbeaten(k))
      BY <1>1 DEF PrepareClassifier, PrepareLstm, PrepareRegressor, Scripts, Unbeaten
    <2>. QED
      BY <2>1, BeginKeeps
  <1>2. CASE ClassifierEpoch \/ LstmEpoch
    <2>1. PICK k \in {"classifier", "lstm"}, a \in Accuracies : Learn(k, a, a > best)
      BY <1>2 DEF ClassifierEpoch, LstmEpoch
    <2>2. k \in Scripts /\ a \in Scores(k)
      BY <2>1 DEF Scripts, Scores
    <2>3. best \in Scores(k) \cup {Unbeaten(k)} => (a > best) = Beats(k, a, best)
      BY <2>1, <2>2, TrainingAssumption DEF Beats, Scores, Unbeaten
    <2>4. PICK improves \in BOOLEAN : improves <=> a > best
      OBVIOUS
    <2>5. Learn(k, a, improves) /\ (best \in Scores(k) \cup {Unbeaten(k)} => improves = Beats(k, a, best))
      BY <2>1, <2>3, <2>4 DEF Learn
    <2>. QED
      BY <2>2, <2>4, <2>5, LearnKeeps
  <1>3. CASE RegressorEpoch
    <2>1. PICK x \in Losses \cup {NaN} : Learn("regressor", x, x # NaN /\ x < best)
      BY <1>3 DEF RegressorEpoch
    <2>2. "regressor" \in Scripts /\ x \in Scores("regressor")
      BY <2>1 DEF Scripts, Scores
    <2>3. best \in Scores("regressor") \cup {Unbeaten("regressor")}
             => (x # NaN /\ x < best) = Beats("regressor", x, best)
      BY <2>1, TrainingAssumption DEF Beats, Scores, Unbeaten, NaN, Infinity
    <2>4. PICK improves \in BOOLEAN : improves = (x # NaN /\ x < best)
      OBVIOUS
    <2>5. /\ Learn("regressor", x, improves)
          /\ best \in Scores("regressor") \cup {Unbeaten("regressor")}
                => improves = Beats("regressor", x, best)
      BY <2>1, <2>3, <2>4 DEF Learn
    <2>. QED
      BY <2>2, <2>4, <2>5, LearnKeeps
  <1>4. CASE FinishClassifier \/ FinishRegressor
    BY <1>4, EndKeeps DEF FinishClassifier, FinishRegressor, Trained, ReadBack
  <1>5. CASE FinishLstm
    BY <1>5, EndKeeps DEF FinishLstm, Trained
  <1>6. CASE Kill
    BY <1>6, EndKeeps DEF Kill
  <1>7. CASE UNCHANGED trainingVars
    <2>1. /\ runs' = runs /\ training' = training /\ best' = best /\ waiting' = waiting
          /\ scaler' = scaler /\ models' = models /\ metas' = metas
      BY <1>7 DEF trainingVars
    <2>2. MetadataFit'
      BY <2>1 DEF TrainingInv, MetadataFit, Records
    <2>. QED
      BY <2>1, <2>2 DEF TrainingInv, RunTypeOK, RunUnderWay, FilesOfRuns, Run, ThisRun
  <1>. QED
    BY <1>1, <1>2, <1>3, <1>4, <1>5, <1>6, <1>7 DEF TrainingNext

LEMMA EmptyDirectory == TrainingInit => TrainingInv
  <1>. SUFFICES ASSUME TrainingInit PROVE TrainingInv
    OBVIOUS
  <1>1. /\ runs = <<>> /\ Len(runs) = 0 /\ DOMAIN runs = {} /\ training = FALSE /\ scaler = NoRun
        /\ models = [o \in Outputs |-> [run |-> NoRun, epoch |-> 0]]
        /\ metas = [o \in Outputs |-> [run |-> NoRun, of |-> NoRun]]
    BY DEF TrainingInit
  <1>2. RunTypeOK
    <2>1. [run |-> NoRun, epoch |-> 0] \in [run : Nat \cup {NoRun}, epoch : Nat]
      OBVIOUS
    <2>2. [run |-> NoRun, of |-> NoRun] \in [run : Nat \cup {NoRun}, of : Nat \cup {NoRun}]
      OBVIOUS
    <2>3. runs \in Seq(RunRecords)
      BY <1>1
    <2>. QED
      BY <1>1, <2>1, <2>2, <2>3 DEF RunTypeOK, Run
  <1>4. RunUnderWay /\ FilesOfRuns /\ MetadataFit
    BY <1>1 DEF RunUnderWay, FilesOfRuns, MetadataFit, Run
  <1>3. \A o \in Outputs : KeptIn(runs, models[o], o)
    BY <1>1 DEF KeptIn, Able
  <1>. QED
    BY <1>2, <1>3, <1>4 DEF TrainingInv

(* The files fit because of what the runs have been.                       *)
LEMMA DirectoryFits == TrainingInv => TrainingSound
  <1>. SUFFICES ASSUME TrainingInv PROVE TrainingSound
    OBVIOUS
  <1>1. BestIsKept /\ MetadataFit
    BY BestIsKeptIn DEF TrainingInv
  <1>2. GivesUpInTime
    <2>. SUFFICES ASSUME training PROVE GivesUpInTime
      BY DEF GivesUpInTime
    <2> DEFINE s == ThisRun.scores
    <2>1. /\ waiting \in 0..Len(s) /\ waiting <= Patience
          /\ \A d \in Records(Run) : d <= Len(s) - waiting
          /\ waiting < Len(s) => Len(s) - waiting \in Records(Run)
          /\ Epoch = Len(s)
      BY DEF TrainingInv, RunUnderWay, LearnedFrom, Records, RecordsIn, ThisRun, Epoch
    <2>2. Records(Run) \subseteq 1..Len(s) /\ Len(s) \in Nat
      <3>1. s \in Seq(Scores(runs[Run].script))
        BY DEF TrainingInv, RunTypeOK, Run, ThisRun
      <3>. HIDE DEF s
      <3>2. DOMAIN s = 1..Len(s) /\ Len(s) \in Nat
        BY <3>1
      <3>. QED
        BY <3>2 DEF Records, ThisRun, s
    <2>. HIDE DEF s
    <2>3. CASE Records(Run) = {}
      BY <2>1, <2>2, <2>3 DEF GivesUpInTime
    <2>4. CASE Records(Run) # {}
      <3> DEFINE top == CHOOSE e \in Records(Run) : \A d \in Records(Run) : d <= e
      <3>1. Len(s) - waiting \in Records(Run)
        BY <2>1, <2>2, <2>4
      <3>2. top \in Records(Run) /\ \A d \in Records(Run) : d <= top
        BY <2>1, <3>1
      <3>. HIDE DEF top
      <3>3. top = Len(s) - waiting
        BY <2>1, <2>2, <3>1, <3>2
      <3>4. Epoch - top = waiting
        BY <2>1, <2>2, <3>3
      <3>. QED
        BY <2>1, <2>4, <3>4 DEF GivesUpInTime, top
    <2>. QED
      BY <2>3, <2>4
  <1>3. ScalerFits
    <2>. SUFFICES ASSUME NEW o \in Outputs, models[o].run # NoRun, scaler # models[o].run
                  PROVE  /\ scaler = Run /\ models[o].run < scaler
                         /\ runs[scaler].output # o \/ Records(scaler) = {}
      BY DEF ScalerFits
    <2>1. models[o].run \in Able(runs, o) /\ \A r \in Able(runs, o) : r <= models[o].run
      BY DEF TrainingInv, KeptIn
    <2>2. DOMAIN runs = 1..Run /\ Run \in Nat /\ models[o].run \in 1..Run
      BY <2>1 DEF TrainingInv, RunTypeOK, Run, Able
    <2>3. scaler = Run /\ Run > models[o].run
      BY <2>2 DEF TrainingInv, FilesOfRuns
    <2>4. Run \notin Able(runs, o)
      BY <2>1, <2>2, <2>3
    <2>. QED
      BY <2>2, <2>3, <2>4, RecordsAre DEF Able
  <1>. QED
    BY <1>1, <1>2, <1>3 DEF TrainingSound

-----------------------------------------------------------------------------
(* The trades of the offline backtests                                     *)

Reasons == {"none", "stop_loss", "take_profit", "max_hold", "signal_reversal", "end_of_data"}
DealRecords ==
    [side : {-1, 1}, entry : Nat, exit : Nat, from : Nat, to : Nat, reason : Reasons, pnl : Int]
Holdings == [side : {-1, 0, 1}, price : Nat, at : Nat]

(* What a position has made at a price.                                    *)
Made(price, entry, way) == (price - entry) * way
Between(gain) == -StopTicks < gain /\ gain < TakeTicks

(* A trade that says what its closes were, of the closes so far.           *)
Watched(cs, d) ==
    /\ \A j \in d.from + 1..d.to - 1 : Between(Made(cs[j], d.entry, d.side))
    /\ (d.reason = "stop_loss")
          <=> (d.reason # "end_of_data" /\ Made(cs[d.to], d.entry, d.side) <= -StopTicks)
    /\ (d.reason = "take_profit")
          <=> (d.reason # "end_of_data" /\ Made(cs[d.to], d.entry, d.side) >= TakeTicks)

(* Trades one after the other.                                             *)
InTurn(ds) ==
    /\ \A i \in DOMAIN ds : ds[i].from < ds[i].to /\ ds[i].to - ds[i].from <= MaxHold
    /\ \A i \in 2..Len(ds) : ds[i - 1].to <= ds[i].from

ReplayTypeOK ==
    /\ closes \in Seq(Nat) /\ Bar > 0
    /\ holding \in Holdings /\ deals \in Seq(DealRecords)
    /\ equity \in Seq(Int) /\ ended \in BOOLEAN

(* What is held was bought after the last trade and before this bar, and   *)
(* has been between its barriers ever since.                               *)
HoldingWatched ==
    holding.side # 0 =>
        /\ ~ended /\ equity # <<>>
        /\ holding.at \in 1..Bar - 1 /\ Bar - holding.at <= MaxHold
        /\ \A j \in holding.at + 1..Bar - 1 : Between(Made(closes[j], holding.price, holding.side))
        /\ \A i \in DOMAIN deals : deals[i].to <= holding.at

(* The curve ends with what the trades made, but for the last one if that  *)
(* came with the end of the data.                                          *)
LastLost == IF deals[Len(deals)].reason = "end_of_data" THEN deals[Len(deals)].pnl ELSE 0
CurveFollows ==
    /\ equity = <<>> => deals = <<>>
    /\ ~ended => \A i \in DOMAIN deals : deals[i].reason # "end_of_data"
    /\ ~ended /\ equity # <<>> => equity[Len(equity)] = DealsPnl(deals)
    /\ ended /\ deals # <<>> => equity[Len(equity)] = DealsPnl(deals) - LastLost

ReplayInv ==
    /\ ReplayTypeOK /\ HoldingWatched /\ CurveFollows
    /\ InTurn(deals) /\ \A i \in DOMAIN deals : deals[i].to <= Bar
    /\ \A i \in DOMAIN deals : Watched(closes, deals[i])

(* A trade more adds what it made.                                         *)
LEMMA PnlGrows ==
    ASSUME NEW s \in Seq(DealRecords)
    PROVE  /\ DealsPnl(s) \in Int
           /\ \A d \in DealRecords : DealsPnl(Append(s, d)) = DealsPnl(s) + d.pnl
  <1> DEFINE f(t) == [i \in DOMAIN t |-> t[i].pnl]
             n == Len(s)
  <1>1. n \in Nat /\ DOMAIN s = 1..n /\ \A i \in 1..n : s[i].pnl \in Int
    <2>1. \A i \in 1..n : s[i] \in DealRecords
      OBVIOUS
    <2>. QED
      BY <2>1 DEF DealRecords
  <1>2. IsFiniteSet(1..n)
    BY <1>1, FS_Interval
  <1>3. DealsPnl(s) = SumFunctionOnSet(f(s), 1..n)
    BY <1>1 DEF DealsPnl, SumFunction
  <1>4. \A i \in 1..n : f(s)[i] = s[i].pnl /\ f(s)[i] \in Int
    BY <1>1
  <1>5. DealsPnl(s) \in Int
    <2>. HIDE DEF f
    <2>. QED
      BY <1>2, <1>3, <1>4, SumRule
  <1>6. ASSUME NEW d \in DealRecords
        PROVE  DealsPnl(Append(s, d)) = DealsPnl(s) + d.pnl
    <2> DEFINE t == Append(s, d)
    <2>1. /\ DOMAIN t = 1..n + 1 /\ t[n + 1] = d /\ \A i \in 1..n : t[i] = s[i]
          /\ 1..n + 1 = (1..n) \cup {n + 1} /\ n + 1 \notin 1..n
      BY <1>1
    <2>. HIDE DEF t
    <2>2. DealsPnl(t) = SumFunctionOnSet(f(t), (1..n) \cup {n + 1})
      BY <2>1 DEF DealsPnl, SumFunction
    <2>3. /\ f(t)[n + 1] = d.pnl /\ d.pnl \in Int
          /\ \A i \in 1..n : f(t)[i] = f(s)[i] /\ f(t)[i] \in Int
      <3>1. d.pnl \in Int
        BY DEF DealRecords
      <3>2. \A i \in DOMAIN t : f(t)[i] = t[i].pnl
        OBVIOUS
      <3>3. \A i \in 1..n : i \in 1..n + 1
        BY <1>1
      <3>. HIDE DEF f
      <3>. QED
        BY <1>4, <2>1, <3>1, <3>2, <3>3
    <2>. HIDE DEF f
    <2>4. SumFunctionOnSet(f(t), (1..n) \cup {n + 1}) = SumFunctionOnSet(f(t), 1..n) + f(t)[n + 1]
      <3> DEFINE g == f(t)
                 S == 1..n
      <3>1. IsFiniteSet(S) /\ n + 1 \notin S /\ g[n + 1] \in Int /\ \A i \in S : g[i] \in Int
        BY <1>2, <2>1, <2>3
      <3>. HIDE DEF g, S
      <3>2. SumFunctionOnSet(g, S \cup {n + 1}) = SumFunctionOnSet(g, S) + g[n + 1]
        BY <3>1, SumGrows
      <3>. QED
        BY <3>2 DEF g, S
    <2>5. SumFunctionOnSet(f(t), 1..n) = SumFunctionOnSet(f(s), 1..n)
      BY <1>2, <2>3, SumOfSame
    <2>. QED
      BY <1>3, <2>2, <2>3, <2>4, <2>5 DEF t
  <1>. QED
    BY <1>5, <1>6

(* What the trades before it have seen does not change with a bar more.    *)
LEMMA WatchedStays ==
    ASSUME NEW cs \in Seq(Nat), NEW c \in Nat, NEW d \in DealRecords, d.from < d.to,
           d.to <= Len(cs), Watched(cs, d)
    PROVE  Watched(Append(cs, c), d)
  <1>1. d.from \in Nat /\ d.to \in Nat
    BY DEF DealRecords
  <1>2. \A j \in 1..Len(cs) : Append(cs, c)[j] = cs[j]
    OBVIOUS
  <1>3. d.to \in 1..Len(cs) /\ \A j \in d.from + 1..d.to - 1 : j \in 1..Len(cs)
    BY <1>1
  <1>. QED
    BY <1>2, <1>3 DEF Watched

LEMMA TurnGrows ==
    ASSUME NEW ds \in Seq(DealRecords), InTurn(ds), NEW d \in DealRecords,
           d.from < d.to, d.to - d.from <= MaxHold,
           \A i \in DOMAIN ds : ds[i].to <= d.from
    PROVE  InTurn(Append(ds, d))
  <1> DEFINE t == Append(ds, d)
             n == Len(ds)
  <1>1. /\ n \in Nat /\ DOMAIN ds = 1..n /\ Len(t) = n + 1 /\ DOMAIN t = 1..n + 1
        /\ t[n + 1] = d /\ \A i \in 1..n : t[i] = ds[i]
    OBVIOUS
  <1>. HIDE DEF t
  <1>2. \A i \in DOMAIN t : t[i].from < t[i].to /\ t[i].to - t[i].from <= MaxHold
    <2>1. \A i \in 1..n + 1 : i \in 1..n \/ i = n + 1
      BY <1>1
    <2>. QED
      BY <1>1, <2>1 DEF InTurn
  <1>3. ASSUME NEW i \in 2..Len(t) PROVE t[i - 1].to <= t[i].from
    <2>1. CASE i = n + 1
      <3>1. i - 1 = n /\ n \in 1..n
        BY <1>1, <1>3, <2>1
      <3>. QED
        BY <1>1, <2>1, <3>1
    <2>2. CASE i # n + 1
      <3>1. i \in 2..n /\ i - 1 \in 1..n /\ i \in 1..n
        BY <1>1, <1>3, <2>2
      <3>. QED
        BY <1>1, <3>1 DEF InTurn
    <2>. QED
      BY <2>1, <2>2
  <1>. QED
    BY <1>2, <1>3 DEF InTurn, t

(* A gain is a number, and the reason for an exit says what it was.        *)
LEMMA ExitFacts ==
    ASSUME ReplayTypeOK, holding.side # 0, NEW signal
    PROVE  LET x == Made(Now, holding.price, holding.side)
               r == ExitReason(signal)
           IN  /\ r = "none" => Between(x) /\ Bar - holding.at < MaxHold
               /\ r \in Reasons /\ r # "end_of_data"
               /\ (r = "stop_loss") <=> (x <= -StopTicks)
               /\ (r = "take_profit") <=> (x >= TakeTicks)
  <1> DEFINE x == Made(Now, holding.price, holding.side)
  <1>1. holding.side \in {-1, 1} /\ holding.price \in Nat /\ holding.at \in Nat
    BY DEF ReplayTypeOK, Holdings
  <1>2. Now \in Nat /\ Bar \in Nat
    BY DEF ReplayTypeOK, Now, Bar
  <1>3. x \in Int
    <2>1. CASE holding.side = 1
      BY <1>1, <1>2, <2>1 DEF Made
    <2>2. CASE holding.side = -1
      BY <1>1, <1>2, <2>2 DEF Made
    <2>. QED
      BY <1>1, <2>1, <2>2
  <1>4. Unrealized = x
    BY DEF Unrealized, Made
  <1>5. StopTicks \in Nat \ {0} /\ TakeTicks \in Nat \ {0} /\ MaxHold \in Nat \ {0}
    BY ReplayAssumption
  <1>. HIDE DEF x
  <1>6. ~(x <= -StopTicks /\ x >= TakeTicks) /\ (Between(x) <=> ~(x <= -StopTicks) /\ ~(x >= TakeTicks))
    BY <1>3, <1>5 DEF Between
  <1>7. ~(Bar - holding.at >= MaxHold) => Bar - holding.at < MaxHold
    BY <1>1, <1>2, <1>5
  <1>8. \/ ExitReason(signal) = "stop_loss" /\ x <= -StopTicks
        \/ ExitReason(signal) = "take_profit" /\ ~(x <= -StopTicks) /\ x >= TakeTicks
        \/ ExitReason(signal) = "max_hold" /\ ~(x <= -StopTicks) /\ ~(x >= TakeTicks)
        \/ ExitReason(signal) = "signal_reversal" /\ ~(x <= -StopTicks) /\ ~(x >= TakeTicks)
        \/ /\ ExitReason(signal) = "none" /\ ~(x <= -StopTicks) /\ ~(x >= TakeTicks)
           /\ ~(Bar - holding.at >= MaxHold)
    BY <1>4 DEF ExitReason
  <1> DEFINE r == ExitReason(signal)
  <1>. HIDE DEF r
  <1>9. r = "none" => Between(x) /\ Bar - holding.at < MaxHold
    BY <1>6, <1>7, <1>8 DEF r
  <1>10. r \in Reasons /\ r # "end_of_data"
    BY <1>8 DEF r, Reasons
  <1>11. (r = "stop_loss") <=> (x <= -StopTicks)
    BY <1>6, <1>8 DEF r
  <1>12. (r = "take_profit") <=> (x >= TakeTicks)
    BY <1>6, <1>8 DEF r
  <1>. QED
    BY <1>9, <1>10, <1>11, <1>12 DEF r, x

(* A trade closed at this bar is the next in turn, and is one that was     *)
(* watched; the books go on with it.                                       *)
LEMMA DealFacts ==
    ASSUME ReplayInv, holding.side # 0, NEW price \in Nat, NEW reason \in Reasons,
           LET x == Made(Now, holding.price, holding.side)
           IN  /\ (reason = "stop_loss") <=> (reason # "end_of_data" /\ x <= -StopTicks)
               /\ (reason = "take_profit") <=> (reason # "end_of_data" /\ x >= TakeTicks)
    PROVE  LET d == Deal(price, reason)
           IN  /\ d \in DealRecords /\ d.to = Bar /\ d.from < d.to /\ d.reason = reason
               /\ Watched(closes, d)
               /\ InTurn(Append(deals, d)) /\ Append(deals, d) \in Seq(DealRecords)
               /\ DealsPnl(Append(deals, d)) = DealsPnl(deals) + d.pnl
               /\ DealsPnl(deals) \in Int
  <1> DEFINE d == Deal(price, reason)
  <1>1. holding.side \in {-1, 1} /\ holding.price \in Nat /\ holding.at \in Nat /\ Bar \in Nat
    BY DEF ReplayInv, ReplayTypeOK, Holdings, Bar
  <1>2. d.pnl \in Int
    <2>1. SideCost \in Nat
      BY ReplayAssumption
    <2>2. CASE holding.side = 1
      BY <1>1, <2>1, <2>2 DEF Deal
    <2>3. CASE holding.side = -1
      BY <1>1, <2>1, <2>3 DEF Deal
    <2>. QED
      BY <1>1, <2>2, <2>3
  <1>3. /\ d.side = holding.side /\ d.entry = holding.price /\ d.from = holding.at
        /\ d.to = Bar /\ d.reason = reason
    BY DEF Deal
  <1>4. d \in DealRecords
    <2>1. d = [side |-> holding.side, entry |-> holding.price, exit |-> price, from |-> holding.at,
               to |-> Bar, reason |-> reason, pnl |-> d.pnl]
      BY DEF Deal
    <2>. HIDE DEF d
    <2>. QED
      BY <1>1, <1>2, <2>1 DEF DealRecords
  <1>. HIDE DEF d
  <1>5. /\ holding.at \in 1..Bar - 1 /\ Bar - holding.at <= MaxHold
        /\ \A j \in holding.at + 1..Bar - 1 : Between(Made(closes[j], holding.price, holding.side))
        /\ \A i \in DOMAIN deals : deals[i].to <= holding.at
    BY DEF ReplayInv, HoldingWatched
  <1>6. Watched(closes, d)
    BY <1>3, <1>5 DEF Watched, Now
  <1>7. d.from < d.to /\ d.to - d.from <= MaxHold
    BY <1>1, <1>3, <1>5
  <1>8. deals \in Seq(DealRecords) /\ InTurn(deals)
    BY DEF ReplayInv, ReplayTypeOK
  <1>9. InTurn(Append(deals, d))
    BY <1>3, <1>4, <1>5, <1>7, <1>8, TurnGrows
  <1>10. DealsPnl(Append(deals, d)) = DealsPnl(deals) + d.pnl /\ DealsPnl(deals) \in Int
    BY <1>4, <1>8, PnlGrows
  <1>11. Append(deals, d) \in Seq(DealRecords)
    BY <1>4, <1>8
  <1>. QED
    BY <1>3, <1>4, <1>6, <1>7, <1>9, <1>10, <1>11 DEF d

LEMMA WalkKeeps ==
    ASSUME ReplayInv, NEW signal \in {-1, 0, 1}, NEW opening \in Nat, NEW closing \in Nat,
           Walk(signal, opening, closing)
    PROVE  ReplayInv'
  <1> DEFINE leaves == holding.side # 0 /\ ExitReason(signal) # "none"
             d == Deal(opening, ExitReason(signal))
             n == Len(closes)
  <1>1. /\ closes \in Seq(Nat) /\ Bar = n /\ n \in Nat /\ n > 0 /\ DOMAIN closes = 1..n
        /\ holding \in Holdings /\ deals \in Seq(DealRecords) /\ equity \in Seq(Int)
        /\ InTurn(deals) /\ \A i \in DOMAIN deals : deals[i].to <= n /\ Watched(closes, deals[i])
    BY DEF ReplayInv, ReplayTypeOK, Bar
  <1>2. /\ ~ended /\ ended' = ended
        /\ closes' = Append(closes, closing) /\ equity' = Append(equity, DealsPnl(deals'))
        /\ deals' = IF leaves THEN Append(deals, d) ELSE deals
        /\ holding' = IF holding.side # 0 /\ ~leaves THEN holding
                   ELSE IF signal = 0 THEN NotHolding
                   ELSE [side |-> signal, price |-> opening, at |-> n]
    BY <1>1 DEF Walk
  <1>3. /\ closes' \in Seq(Nat) /\ Bar' = n + 1 /\ DOMAIN closes' = 1..n + 1
        /\ \A j \in 1..n : closes'[j] = closes[j]
    BY <1>1, <1>2 DEF Bar
  <1>4. \A i \in DOMAIN deals : deals[i] \in DealRecords /\ deals[i].from < deals[i].to
    BY <1>1 DEF InTurn
  <1>5. leaves => /\ d \in DealRecords /\ d.to = n /\ d.from < d.to /\ d.reason # "end_of_data"
                  /\ Watched(closes, d)
                  /\ InTurn(Append(deals, d)) /\ Append(deals, d) \in Seq(DealRecords)
    <2>. SUFFICES ASSUME leaves
                  PROVE  /\ d \in DealRecords /\ d.to = n /\ d.from < d.to /\ d.reason # "end_of_data"
                         /\ Watched(closes, d)
                         /\ InTurn(Append(deals, d)) /\ Append(deals, d) \in Seq(DealRecords)
      OBVIOUS
    <2> DEFINE r == ExitReason(signal)
               x == Made(Now, holding.price, holding.side)
    <2>1. /\ r \in Reasons /\ r # "end_of_data"
          /\ (r = "stop_loss") <=> (x <= -StopTicks)
          /\ (r = "take_profit") <=> (x >= TakeTicks)
      BY ExitFacts DEF ReplayInv
    <2>2. /\ (r = "stop_loss") <=> (r # "end_of_data" /\ x <= -StopTicks)
          /\ (r = "take_profit") <=> (r # "end_of_data" /\ x >= TakeTicks)
      BY <2>1
    <2>. HIDE DEF r
    <2>. QED
      BY <1>1, <2>1, <2>2, DealFacts DEF r
  <1>6. /\ deals' \in Seq(DealRecords) /\ InTurn(deals')
        /\ \A i \in DOMAIN deals' : \/ i \in DOMAIN deals /\ deals'[i] = deals[i]
                                    \/ leaves /\ deals'[i] = d
    <2>1. CASE leaves
      <3>1. \A i \in DOMAIN Append(deals, d) : \/ i \in DOMAIN deals /\ Append(deals, d)[i] = deals[i]
                                               \/ Append(deals, d)[i] = d
        <4>. HIDE DEF d
        <4>. QED
          BY <1>1
      <3>. QED
        BY <1>2, <1>5, <2>1, <3>1
    <2>2. CASE ~leaves
      BY <1>1, <1>2, <2>2
    <2>. QED
      BY <2>1, <2>2
  <1>. HIDE DEF d, n
  <1>7. \A i \in DOMAIN deals' : /\ deals'[i].to <= n /\ deals'[i].to <= n + 1
                                 /\ deals'[i].reason # "end_of_data"
                                 /\ Watched(closes', deals'[i])
    <2>1. ASSUME NEW i \in DOMAIN deals
          PROVE  deals[i].to <= n /\ deals[i].reason # "end_of_data" /\ Watched(closes', deals[i])
      <3>1. deals[i].reason # "end_of_data"
        BY <1>2, <2>1 DEF ReplayInv, CurveFollows
      <3>2. Watched(closes', deals[i])
        BY <1>1, <1>2, <1>4, <2>1, WatchedStays DEF n
      <3>. QED
        BY <1>1, <2>1, <3>1, <3>2
    <2>2. leaves => d.to <= n /\ d.reason # "end_of_data" /\ Watched(closes', d)
      <3>1. leaves => d.to <= n
        BY <1>1, <1>5
      <3>2. leaves => Watched(closes', d)
        BY <1>1, <1>2, <1>5, <3>1, WatchedStays DEF n
      <3>. QED
        BY <1>5, <3>1, <3>2
    <2>3. \A i \in DOMAIN deals' : deals'[i].to \in Nat
      <3>1. \A i \in DOMAIN deals' : deals'[i] \in DealRecords
        BY <1>6
      <3>. QED
        BY <3>1 DEF DealRecords
    <2>4. \A m \in Nat : m <= n => m <= n + 1
      BY <1>1
    <2>. QED
      BY <1>6, <2>1, <2>2, <2>3, <2>4
  <1>8. DealsPnl(deals') \in Int
    BY <1>6, PnlGrows
  <1>9. ReplayTypeOK'
    <2>1. holding' \in Holdings
      BY <1>1, <1>2 DEF Holdings, NotHolding
    <2>2. equity' \in Seq(Int)
      BY <1>1, <1>2, <1>8
    <2>3. Bar' > 0 /\ ended' \in BOOLEAN
      BY <1>1, <1>2, <1>3 DEF ReplayInv, ReplayTypeOK
    <2>. QED
      BY <1>3, <1>6, <2>1, <2>2, <2>3 DEF ReplayTypeOK
  <1>10. HoldingWatched'
    <2>. SUFFICES ASSUME holding'.side # 0 PROVE HoldingWatched'
      BY DEF HoldingWatched
    <2>1. ~ended' /\ equity' # <<>>
      BY <1>1, <1>2
    <2>2. CASE holding.side # 0 /\ ~leaves
      <3>1. holding' = holding /\ deals' = deals
        BY <1>2, <2>2
      <3>2. /\ holding.at \in 1..n - 1 /\ n - holding.at <= MaxHold
            /\ \A j \in holding.at + 1..n - 1 : Between(Made(closes[j], holding.price, holding.side))
            /\ \A i \in DOMAIN deals : deals[i].to <= holding.at
        BY <1>1, <2>2 DEF ReplayInv, HoldingWatched
      <3>3. Between(Made(closes[n], holding.price, holding.side)) /\ n - holding.at < MaxHold
        BY <1>1, <2>2, ExitFacts DEF ReplayInv, Now
      <3>4. /\ holding.at \in 1..(n + 1) - 1 /\ (n + 1) - holding.at <= MaxHold
            /\ \A j \in holding.at + 1..(n + 1) - 1 : j \in 1..n /\ (j \in holding.at + 1..n - 1 \/ j = n)
        <4>1. PICK h \in Nat : h = holding.at
          BY <1>1 DEF Holdings
        <4>2. h \in 1..n - 1 /\ n - h < MaxHold /\ n - h <= MaxHold
          BY <3>2, <3>3, <4>1
        <4>3. MaxHold \in Nat
          BY ReplayAssumption
        <4>4. h \in 1..(n + 1) - 1 /\ (n + 1) - h <= MaxHold
          BY <1>1, <4>2, <4>3
        <4>5. \A j \in h + 1..(n + 1) - 1 : j \in 1..n /\ (j \in h + 1..n - 1 \/ j = n)
          BY <1>1, <4>1, <4>2
        <4>. QED
          BY <4>1, <4>4, <4>5
      <3>5. \A j \in holding.at + 1..(n + 1) - 1 :
               Between(Made(closes'[j], holding.price, holding.side))
        BY <1>3, <3>2, <3>3, <3>4
      <3>. QED
        BY <1>3, <2>1, <3>1, <3>2, <3>4, <3>5 DEF HoldingWatched
    <2>3. CASE ~(holding.side # 0 /\ ~leaves)
      <3>1. holding'.at = n
        BY <1>2, <2>3 DEF NotHolding
      <3>2. n \in 1..(n + 1) - 1 /\ (n + 1) - n <= MaxHold /\ n + 1..(n + 1) - 1 = {}
        BY <1>1, ReplayAssumption
      <3>. QED
        BY <1>3, <1>7, <2>1, <3>1, <3>2 DEF HoldingWatched
    <2>. QED
      BY <2>2, <2>3
  <1>11. CurveFollows'
    <2>1. equity' # <<>> /\ equity'[Len(equity')] = DealsPnl(deals')
      <3>1. equity \in Seq(Int) /\ Len(equity) \in Nat
        BY <1>1
      <3>2. PICK v \in Int : v = DealsPnl(deals')
        BY <1>8
      <3>3. Len(Append(equity, v)) = Len(equity) + 1 /\ Append(equity, v)[Len(equity) + 1] = v
        BY <3>1
      <3>4. Len(equity') = Len(equity) + 1 /\ equity'[Len(equity) + 1] = v
        BY <1>2, <3>2, <3>3
      <3>5. equity' # <<>>
        BY <3>1, <3>4
      <3>. QED
        BY <3>2, <3>4, <3>5
    <2>. QED
      BY <1>2, <1>7, <2>1 DEF CurveFollows
  <1>. QED
    BY <1>3, <1>6, <1>7, <1>9, <1>10, <1>11 DEF ReplayInv

LEMMA EndKeepsReplay ==
    ASSUME ReplayInv, EndOfData
    PROVE  ReplayInv'
  <1> DEFINE d == Deal(Now, "end_of_data")
             n == Len(deals)
  <1>1. /\ closes \in Seq(Nat) /\ Bar > 0 /\ deals \in Seq(DealRecords) /\ equity \in Seq(Int)
        /\ InTurn(deals) /\ \A i \in DOMAIN deals : deals[i].to <= Bar /\ Watched(closes, deals[i])
        /\ Bar \in Nat /\ Now \in Nat /\ n \in Nat /\ DOMAIN deals = 1..n
    BY DEF ReplayInv, ReplayTypeOK, Bar, Now
  <1>2. /\ ~ended /\ ended' = TRUE /\ closes' = closes /\ equity' = equity
        /\ deals' = IF holding.side # 0 THEN Append(deals, d) ELSE deals
        /\ holding' = NotHolding /\ Bar' = Bar
    BY DEF EndOfData, Bar
  <1>3. NotHolding \in Holdings /\ NotHolding.side = 0
    BY DEF NotHolding, Holdings
  <1>4. CASE holding.side = 0
    <2>1. deals' = deals
      BY <1>2, <1>4
    <2>2. CurveFollows'
      <3>1. /\ equity = <<>> => deals = <<>>
            /\ \A i \in DOMAIN deals : deals[i].reason # "end_of_data"
            /\ equity # <<>> => equity[Len(equity)] = DealsPnl(deals)
            /\ DealsPnl(deals) \in Int
        BY <1>1, <1>2, PnlGrows DEF ReplayInv, CurveFollows
      <3>2. deals # <<>> => deals[Len(deals)].reason # "end_of_data"
        <4>1. deals # <<>> => Len(deals) \in DOMAIN deals
          BY <1>1
        <4>. QED
          BY <3>1, <4>1
      <3>. QED
        BY <1>2, <2>1, <3>1, <3>2 DEF CurveFollows, LastLost
    <2>3. ReplayTypeOK' /\ HoldingWatched'
      BY <1>1, <1>2, <1>3, <2>1 DEF ReplayTypeOK, HoldingWatched
    <2>. QED
      BY <1>1, <1>2, <2>1, <2>2, <2>3 DEF ReplayInv
  <1>5. CASE holding.side # 0
    <2>1. /\ d \in DealRecords /\ d.to = Bar /\ d.from < d.to /\ d.reason = "end_of_data"
          /\ Watched(closes, d)
          /\ InTurn(Append(deals, d)) /\ Append(deals, d) \in Seq(DealRecords)
          /\ DealsPnl(Append(deals, d)) = DealsPnl(deals) + d.pnl /\ DealsPnl(deals) \in Int
      <3> DEFINE r == "end_of_data"
                 x == Made(Now, holding.price, holding.side)
      <3>1. /\ r \in Reasons /\ r = "end_of_data"
            /\ (r = "stop_loss") <=> (r # "end_of_data" /\ x <= -StopTicks)
            /\ (r = "take_profit") <=> (r # "end_of_data" /\ x >= TakeTicks)
        BY DEF Reasons
      <3>2. d = Deal(Now, r)
        OBVIOUS
      <3>. HIDE DEF r, d
      <3>. QED
        BY <1>1, <1>5, <3>1, <3>2, DealFacts
    <2>2. deals' = Append(deals, d)
      BY <1>2, <1>5
    <2>. HIDE DEF d
    <2>3. /\ Len(deals') = n + 1 /\ DOMAIN deals' = 1..n + 1 /\ deals'[n + 1] = d
          /\ \A i \in 1..n + 1 : (i \in 1..n /\ deals'[i] = deals[i]) \/ deals'[i] = d
      BY <1>1, <2>2
    <2>4. CurveFollows'
      <3>1. equity # <<>> /\ equity[Len(equity)] = DealsPnl(deals)
        BY <1>2, <1>5 DEF ReplayInv, CurveFollows, HoldingWatched
      <3>2. LastLost' = d.pnl
        BY <2>1, <2>3 DEF LastLost
      <3>3. equity[Len(equity)] = DealsPnl(deals') - LastLost'
        <4>1. d.pnl \in Int
          BY <2>1 DEF DealRecords
        <4>2. PICK x, y \in Int : x = DealsPnl(deals) /\ y = d.pnl
          BY <2>1, <4>1
        <4>3. DealsPnl(deals') = x + y
          BY <2>1, <2>2, <4>2
        <4>4. x = (x + y) - y
          OBVIOUS
        <4>. QED
          BY <3>1, <3>2, <4>2, <4>3, <4>4
      <3>. QED
        BY <1>2, <3>1, <3>3 DEF CurveFollows
    <2>5. ReplayTypeOK' /\ HoldingWatched'
      BY <1>1, <1>2, <1>3, <2>1, <2>2 DEF ReplayTypeOK, HoldingWatched
    <2>6. \A i \in 1..n + 1 : deals'[i].to <= Bar /\ Watched(closes, deals'[i])
      <3>1. ASSUME NEW i \in 1..n + 1 PROVE deals'[i].to <= Bar /\ Watched(closes, deals'[i])
        <4>1. CASE deals'[i] = d
          BY <1>1, <2>1, <4>1
        <4>2. CASE i \in 1..n /\ deals'[i] = deals[i]
          BY <1>1, <4>2
        <4>. QED
          BY <2>3, <4>1, <4>2
      <3>. QED
        BY <3>1
    <2>. QED
      BY <1>2, <2>1, <2>2, <2>3, <2>4, <2>5, <2>6 DEF ReplayInv
  <1>. QED
    BY <1>4, <1>5

LEMMA ReplayKeeps == ReplayInv /\ [ReplayNext]_replayVars => ReplayInv'
  <1>. SUFFICES ASSUME ReplayInv, [ReplayNext]_replayVars PROVE ReplayInv'
    OBVIOUS
  <1>1. CASE ClassifierBar
    <2>1. PICK p \in [buy : Probabilities, sell : Probabilities], opening, closing \in BarPrices :
             Walk(ClassSignal(p), opening, closing)
      BY <1>1 DEF ClassifierBar
    <2>2. ClassSignal(p) \in {-1, 0, 1} /\ opening \in Nat /\ closing \in Nat
      BY ReplayAssumption DEF ClassSignal
    <2>. QED
      BY <2>1, <2>2, WalkKeeps
  <1>2. CASE RegressorBar
    <2>1. PICK p \in [{1, 3} -> Predictions], opening, closing \in BarPrices :
             Walk(EnsembleSignal(p), opening, closing)
      BY <1>2 DEF RegressorBar
    <2>2. EnsembleSignal(p) \in {-1, 0, 1} /\ opening \in Nat /\ closing \in Nat
      BY ReplayAssumption DEF EnsembleSignal
    <2>. QED
      BY <2>1, <2>2, WalkKeeps
  <1>3. CASE EndOfData
    BY <1>3, EndKeepsReplay
  <1>4. CASE UNCHANGED replayVars
    <2>1. /\ closes' = closes /\ holding' = holding /\ deals' = deals /\ equity' = equity
          /\ ended' = ended
      BY <1>4 DEF replayVars
    <2>. QED
      BY <2>1 DEF ReplayInv, ReplayTypeOK, HoldingWatched, CurveFollows, LastLost, Bar
  <1>. QED
    BY <1>1, <1>2, <1>3, <1>4 DEF ReplayNext

LEMMA NothingTraded == ReplayInit => ReplayInv
  <1>. SUFFICES ASSUME ReplayInit PROVE ReplayInv
    OBVIOUS
  <1>1. PICK p \in Nat : closes = <<p>>
    BY ReplayAssumption DEF ReplayInit
  <1>2. holding = NotHolding /\ deals = <<>> /\ equity = <<>> /\ ended = FALSE
    BY DEF ReplayInit
  <1>3. closes \in Seq(Nat) /\ Bar > 0
    BY <1>1 DEF Bar
  <1>4. NotHolding \in Holdings /\ NotHolding.side = 0
    BY DEF NotHolding, Holdings
  <1>5. deals \in Seq(DealRecords) /\ equity \in Seq(Int) /\ DOMAIN deals = {} /\ Len(deals) = 0
    BY <1>2
  <1>6. InTurn(deals)
    BY <1>5 DEF InTurn
  <1>. QED
    BY <1>2, <1>3, <1>4, <1>5, <1>6 DEF ReplayInv, ReplayTypeOK, HoldingWatched, CurveFollows

(* Pairs of finitely many are finitely many.                               *)
LEMMA PairsAreFinite ==
    ASSUME NEW S, IsFiniteSet(S)
    PROVE  IsFiniteSet(S \X S)
BY FS_Product

(* The deepest fall of a curve is one of its falls.                       *)
Falls(curve) == {p \in (DOMAIN curve) \X DOMAIN curve : p[1] <= p[2]}
LEMMA GreatestFallIs ==
    ASSUME NEW curve \in Seq(Int), curve # <<>>
    PROVE  /\ MaxDrawdown(curve) \in Int /\ MaxDrawdown(curve) >= 0
           /\ \E i, j \in DOMAIN curve : i <= j /\ MaxDrawdown(curve) = curve[i] - curve[j]
           /\ \A i, j \in DOMAIN curve : i <= j => curve[i] - curve[j] <= MaxDrawdown(curve)
  <1> DEFINE drop(p) == curve[p[1]] - curve[p[2]]
             drops == {drop(p) : p \in Falls(curve)}
             n == Len(curve)
             deepest == CHOOSE d \in drops : \A e \in drops : e <= d
  <1>1. n \in Nat /\ n > 0 /\ DOMAIN curve = 1..n /\ \A i \in 1..n : curve[i] \in Int
    OBVIOUS
  <1>2. MaxDrawdown(curve) = deepest
    BY DEF MaxDrawdown, Falls
  <1>3. /\ \A p \in Falls(curve) : p[1] \in 1..n /\ p[2] \in 1..n /\ p[1] <= p[2]
        /\ \A i, j \in 1..n : i <= j => <<i, j>> \in Falls(curve)
    BY <1>1 DEF Falls
  <1>4. \A p \in Falls(curve) : drop(p) \in Int
    BY <1>1, <1>3
  <1>5. \A i, j \in 1..n : drop(<<i, j>>) = curve[i] - curve[j]
    OBVIOUS
  <1>6. IsFiniteSet(Falls(curve)) /\ Falls(curve) # {}
    <2>1. IsFiniteSet(1..n)
      BY <1>1, FS_Interval
    <2>2. IsFiniteSet((1..n) \X (1..n))
      BY <2>1, PairsAreFinite
    <2>3. Falls(curve) \subseteq (1..n) \X (1..n)
      BY <1>1 DEF Falls
    <2>4. 1 \in 1..n
      BY <1>1
    <2>. QED
      <3>1. IsFiniteSet(Falls(curve))
        BY <2>2, <2>3, FS_Subset
      <3>2. <<1, 1>> \in Falls(curve)
        BY <1>3, <2>4
      <3>. QED
        BY <3>1, <3>2
  <1>7. PICK m \in Falls(curve) : \A p \in Falls(curve) : drop(p) <= drop(m)
    <2> DEFINE R == {q \in Falls(curve) \X Falls(curve) : drop(q[1]) <= drop(q[2])}
    <2>. HIDE DEF drop
    <2>1. \A p, q \in Falls(curve) : <<p, q>> \in R <=> drop(p) <= drop(q)
      OBVIOUS
    <2>2. \A p, q \in Falls(curve) : drop(p) <= drop(q) \/ drop(q) <= drop(p)
      BY <1>4
    <2>3. \A p, q, r \in Falls(curve) :
             drop(p) <= drop(q) /\ drop(q) <= drop(r) => drop(p) <= drop(r)
      BY <1>4
    <2>. HIDE DEF R
    <2>4. \E m \in Falls(curve) : \A p \in Falls(curve) : <<p, m>> \in R
      BY <1>6, <2>1, <2>2, <2>3, GreatestBy
    <2>. QED
      BY <2>1, <2>4
  <1>8. deepest \in drops /\ \A e \in drops : e <= deepest
    <2>. HIDE DEF drop
    <2>1. drop(m) \in drops /\ \A e \in drops : e <= drop(m)
      BY <1>7
    <2>. HIDE DEF drops
    <2>. QED
      BY <2>1
  <1>9. PICK w \in Falls(curve) : deepest = drop(w)
    BY <1>8
  <1>10. \A p \in Falls(curve) : drop(p) <= deepest
    BY <1>8
  <1>. HIDE DEF drops, deepest
  <1>11. deepest \in Int /\ \E i, j \in 1..n : i <= j /\ deepest = curve[i] - curve[j]
    <2>1. w[1] \in 1..n /\ w[2] \in 1..n /\ w[1] <= w[2] /\ deepest = curve[w[1]] - curve[w[2]]
      BY <1>3, <1>9
    <2>. QED
      BY <1>4, <1>9, <2>1
  <1>12. ASSUME NEW i \in 1..n, NEW j \in 1..n, i <= j PROVE curve[i] - curve[j] <= deepest
    <2>1. <<i, j>> \in Falls(curve) /\ drop(<<i, j>>) = curve[i] - curve[j]
      BY <1>3, <1>5, <1>12
    <2>. HIDE DEF drop
    <2>. QED
      BY <1>10, <2>1
  <1>13. deepest >= 0
    <2>1. 1 \in 1..n /\ curve[1] - curve[1] = 0
      BY <1>1
    <2>2. 0 <= deepest
      BY <1>12, <2>1
    <2>. QED
      BY <1>11, <2>2
  <1>. QED
    BY <1>1, <1>2, <1>11, <1>12, <1>13

(* What is last on a curve makes the fall greater by no more than it has   *)
(* fallen there.                                                           *)
LEMMA LastFall ==
    ASSUME NEW curve \in Seq(Int), curve # <<>>, NEW more \in Int,
           MaxDrawdown(Append(curve, curve[Len(curve)] + more)) > MaxDrawdown(curve)
    PROVE  MaxDrawdown(Append(curve, curve[Len(curve)] + more)) - MaxDrawdown(curve) <= -more
  <1> DEFINE n == Len(curve)
             x == curve[n] + more
             t == Append(curve, x)
  <1>1. n \in Nat /\ n > 0 /\ DOMAIN curve = 1..n /\ \A i \in 1..n : curve[i] \in Int
    OBVIOUS
  <1>2. x \in Int
    BY <1>1
  <1>3. /\ t \in Seq(Int) /\ DOMAIN t = 1..n + 1 /\ t[n + 1] = x /\ \A i \in 1..n : t[i] = curve[i]
        /\ t # <<>>
    <2>. HIDE DEF x
    <2>1. t \in Seq(Int) /\ Len(t) = n + 1 /\ t[n + 1] = x /\ \A i \in 1..n : t[i] = curve[i]
      BY <1>1, <1>2
    <2>. QED
      BY <1>1, <2>1
  <1>. HIDE DEF t, n
  <1>4. PICK a \in Int : a = MaxDrawdown(curve)
    BY GreatestFallIs
  <1>5. PICK b \in Int : b = MaxDrawdown(t)
    BY <1>3, GreatestFallIs
  <1>6. a >= 0 /\ \A i, j \in 1..n : i <= j => curve[i] - curve[j] <= a
    BY <1>1, <1>4, GreatestFallIs
  <1>7. PICK i, j \in 1..n + 1 : i <= j /\ b = t[i] - t[j]
    BY <1>3, <1>5, GreatestFallIs
  <1>8. b > a
    BY <1>4, <1>5 DEF t, n
  <1>9. i \in 1..n /\ j = n + 1
    <2>1. CASE j # n + 1
      <3>1. i \in 1..n /\ j \in 1..n
        BY <1>1, <1>7, <2>1
      <3>. QED
        BY <1>3, <1>6, <1>7, <1>8, <3>1
    <2>2. CASE j = n + 1 /\ i = n + 1
      <3>1. x - x = 0
        BY <1>2
      <3>. QED
        BY <1>3, <1>6, <1>7, <1>8, <2>2, <3>1
    <2>. QED
      BY <1>1, <1>7, <2>1, <2>2
  <1>10. b = curve[i] - (curve[n] + more) /\ curve[i] - curve[n] <= a
    <2>1. n \in 1..n /\ i <= n
      BY <1>1, <1>9
    <2>. QED
      BY <1>3, <1>6, <1>7, <1>9, <2>1
  <1>11. b - a <= -more
    <2>1. curve[i] \in Int /\ curve[n] \in Int
      <3>1. n \in 1..n
        BY <1>1
      <3>2. \A k \in 1..n : curve[k] \in Int
        BY <1>1
      <3>. QED
        BY <1>9, <3>1, <3>2
    <2>. QED
      BY <1>10, <2>1
  <1>. QED
    BY <1>4, <1>5, <1>11 DEF t, n

(* The replay does what it says because of what it keeps.                  *)
LEMMA ReplayFollows == ReplayInv => ReplaySound
  <1>. SUFFICES ASSUME ReplayInv PROVE ReplaySound
    OBVIOUS
  <1>1. OneAtATime
    BY DEF ReplayInv, InTurn, HoldingWatched, OneAtATime
  <1>2. BarriersWatched
    <2>1. ASSUME NEW i \in DOMAIN deals
          PROVE  LET d == deals[i]
                     At(j) == (closes[j] - d.entry) * d.side
                 IN  /\ \A j \in d.from + 1..d.to - 1 : -StopTicks < At(j) /\ At(j) < TakeTicks
                     /\ (d.reason = "stop_loss") = (d.reason # "end_of_data" /\ At(d.to) <= -StopTicks)
                     /\ (d.reason = "take_profit") = (d.reason # "end_of_data" /\ At(d.to) >= TakeTicks)
      <3>1. Watched(closes, deals[i])
        BY <2>1 DEF ReplayInv
      <3>. QED
        BY <3>1 DEF Watched, Made, Between
    <2>. QED
      BY <2>1 DEF BarriersWatched
  <1>3. CurveMissesTheEnd
    <2>. SUFFICES ASSUME ended, deals # <<>> PROVE CurveMissesTheEnd
      BY DEF CurveMissesTheEnd
    <2> DEFINE n == Len(equity)
               final == DealsPnl(deals)
               full == Append(equity, final)
               ending == deals[Len(deals)]
    <2>1. /\ equity \in Seq(Int) /\ deals \in Seq(DealRecords) /\ equity # <<>>
          /\ equity[n] = final - LastLost
      BY DEF ReplayInv, ReplayTypeOK, CurveFollows
    <2>2. n \in Nat /\ n > 0 /\ equity[n] \in Int /\ final \in Int
      BY <2>1, PnlGrows
    <2>3. ending \in DealRecords
      BY <2>1
    <2>4. LastLost = (IF ending.reason = "end_of_data" THEN ending.pnl ELSE 0) /\ LastLost \in Int
      BY <2>3 DEF LastLost, DealRecords
    <2>. HIDE DEF final, n, ending
    <2>5. final = equity[n] + LastLost
      BY <2>1, <2>2, <2>4
    <2>6. MaxDrawdown(full) > MaxDrawdown(equity)
             => MaxDrawdown(full) - MaxDrawdown(equity) <= -LastLost
      BY <2>1, <2>4, <2>5, LastFall DEF n
    <2>7. MaxDrawdown(full) \in Int /\ MaxDrawdown(equity) \in Int
      <3>1. full \in Seq(Int) /\ full # <<>>
        BY <2>1, <2>2
      <3>. QED
        BY <2>1, <3>1, GreatestFallIs
    <2>. HIDE DEF full
    <2>8. MaxDrawdown(full) > MaxDrawdown(equity) => LastLost # 0
      BY <2>6, <2>7
    <2>9. MaxDrawdown(full) > MaxDrawdown(equity)
             => ending.reason = "end_of_data" /\ MaxDrawdown(full) - MaxDrawdown(equity) <= -ending.pnl
      BY <2>4, <2>6, <2>8
    <2>. QED
      BY <2>1, <2>2, <2>4, <2>9 DEF CurveMissesTheEnd, full, final, n, ending
  <1>. QED
    BY <1>1, <1>2, <1>3 DEF ReplaySound

-----------------------------------------------------------------------------
(* Ratios of prices                                                        *)

(* What is left of a division, and what both numbers are multiples of.     *)
LEMMA RestIs ==
    ASSUME NEW x \in Nat, NEW y \in Nat \ {0}
    PROVE  x % y \in 0..y - 1 /\ x \div y \in Nat /\ x = y * (x \div y) + (x % y)
  <1>1. x % y \in 0..y - 1
    OBVIOUS
  <1>2. x \div y \in Nat
    OBVIOUS
  <1>3. x = y * (x \div y) + (x % y)
    OBVIOUS
  <1>. QED
    BY <1>1, <1>2, <1>3

Measures(d, x, y) == \E a, b \in Nat : x = d * a /\ y = d * b
Measuring(x, y) == {d \in 1..y : Measures(d, x, y)}

(* What measures two numbers measures the second and the rest.             *)
LEMMA RestMeasured ==
    ASSUME NEW x \in Nat, NEW y \in Nat \ {0}, NEW d \in Nat \ {0}
    PROVE  Measures(d, x, y) <=> Measures(d, y, x % y)
  <1>1. PICK q, r \in Nat : q = x \div y /\ r = x % y /\ x = y * q + r
    BY RestIs
  <1>2. ASSUME Measures(d, x, y) PROVE Measures(d, y, r)
    <2>1. PICK a, b \in Nat : x = d * a /\ y = d * b
      BY <1>2 DEF Measures
    <2>2. b * q \in Int /\ r = d * (a - b * q)
      <3>1. (d * b) * q = d * (b * q)
        OBVIOUS
      <3>2. PICK m \in Nat : m = b * q
        OBVIOUS
      <3>3. y * q = d * m
        BY <2>1, <3>1, <3>2
      <3>4. d * (a - m) = d * a - d * m
        OBVIOUS
      <3>5. r = x - d * m
        BY <1>1, <3>3
      <3>. QED
        BY <2>1, <3>2, <3>4, <3>5
    <2>3. a - b * q >= 0
      <3>. DEFINE e == a - b * q
      <3>1. e \in Int /\ r = d * e
        BY <2>2
      <3>. HIDE DEF e
      <3>2. e < 0 => d * e < 0
        BY <3>1
      <3>. QED
        BY <3>1, <3>2 DEF e
    <2>4. a - b * q \in Nat
      BY <2>2, <2>3
    <2>. QED
      BY <2>1, <2>2, <2>4 DEF Measures
  <1>3. ASSUME Measures(d, y, r) PROVE Measures(d, x, y)
    <2>1. PICK a, b \in Nat : y = d * a /\ r = d * b
      BY <1>3 DEF Measures
    <2>2. a * q + b \in Nat /\ x = d * (a * q + b)
      <3>1. (d * a) * q = d * (a * q) /\ a * q \in Nat
        OBVIOUS
      <3>2. d * (a * q + b) = d * (a * q) + d * b
        OBVIOUS
      <3>. QED
        BY <1>1, <2>1, <3>1, <3>2
    <2>. QED
      BY <2>1, <2>2 DEF Measures
  <1>. QED
    BY <1>1, <1>2, <1>3

(* Among what measures two numbers there is a deepest.                    *)
LEMMA GreatestMeasure ==
    ASSUME NEW x \in Nat, NEW y \in Nat \ {0}
    PROVE  Max(Measuring(x, y)) \in Measuring(x, y)
           /\ \A d \in Measuring(x, y) : d <= Max(Measuring(x, y))
  <1>1. x = 1 * x /\ y = 1 * y
    OBVIOUS
  <1>2. 1 \in Measuring(x, y)
    BY <1>1 DEF Measuring, Measures
  <1>3. Measuring(x, y) \in SUBSET (0..y)
    BY DEF Measuring
  <1>. QED
    BY <1>2, <1>3, GreatestIs

(* Euclid: the divisor is the deepest measure.                            *)
LEMMA DivisorIs ==
    \A x, y \in Nat : Divisor[<<x, y>>] = IF y = 0 THEN x ELSE Divisor[<<y, x % y>>]
  <1> DEFINE g == [p \in Nat \X Nat |-> IF p[2] = 0 THEN p[1] ELSE Max(Measuring(p[1], p[2]))]
  <1>1. \A x, y \in Nat : g[<<x, y>>] = IF y = 0 THEN x ELSE Max(Measuring(x, y))
    OBVIOUS
  <1>2. ASSUME NEW x \in Nat, NEW y \in Nat, y # 0
        PROVE  x % y \in Nat /\ g[<<x, y>>] = g[<<y, x % y>>]
    <2>. HIDE DEF g
    <2>1. PICK r \in Nat : r = x % y /\ r < y
      BY <1>2, RestIs
    <2>2. CASE r = 0
      <3>1. y = y * 1 /\ r = y * 0
        BY <2>2
      <3>2. Measures(y, y, r)
        BY <3>1 DEF Measures
      <3>3. y \in Measuring(x, y)
        BY <1>2, <2>1, <3>2, RestMeasured DEF Measuring
      <3>4. Max(Measuring(x, y)) \in 1..y
        BY <1>2, GreatestMeasure DEF Measuring
      <3>5. Max(Measuring(x, y)) = y
        BY <1>2, <3>3, <3>4, GreatestMeasure
      <3>. QED
        BY <1>1, <1>2, <2>1, <2>2, <3>5
    <2>3. CASE r # 0
      <3>1. \A d \in Nat \ {0} : Measures(d, y, r) => d <= r
        <4>1. SUFFICES ASSUME NEW d \in Nat \ {0}, NEW b \in Nat, r = d * b PROVE d <= r
          BY DEF Measures
        <4>2. b # 0
          BY <2>3, <4>1
        <4>3. d * b >= d
          BY <4>2
        <4>. QED
          BY <4>1, <4>3
      <3>2. Measuring(x, y) = Measuring(y, r)
        <4>1. \A d \in Nat \ {0} : Measures(d, x, y) <=> Measures(d, y, r)
          BY <1>2, <2>1, RestMeasured
        <4>. QED
          BY <1>2, <2>1, <3>1, <4>1 DEF Measuring
      <3>. QED
        BY <1>1, <1>2, <2>1, <2>3, <3>2
    <2>. QED
      BY <2>2, <2>3
  <1>3. g = [p \in Nat \X Nat |-> IF p[2] = 0 THEN p[1] ELSE g[<<p[2], p[1] % p[2]>>]]
    <2>1. ASSUME NEW p \in Nat \X Nat
          PROVE  (IF p[2] = 0 THEN p[1] ELSE Max(Measuring(p[1], p[2])))
                     = IF p[2] = 0 THEN p[1] ELSE g[<<p[2], p[1] % p[2]>>]
      <3>. HIDE DEF g
      <3>1. PICK x, y \in Nat : x = p[1] /\ y = p[2]
        OBVIOUS
      <3>. QED
        BY <1>1, <1>2, <3>1
    <2>. QED
      BY <2>1, Zenon
  <1>4. Divisor = [p \in Nat \X Nat |-> IF p[2] = 0 THEN p[1] ELSE Divisor[<<p[2], p[1] % p[2]>>]]
    <2>. HIDE DEF g
    <2>. QED
      BY <1>3, Zenon DEF Divisor
  <1>5. ASSUME NEW x \in Nat, NEW y \in Nat
        PROVE  Divisor[<<x, y>>] = IF y = 0 THEN x ELSE Divisor[<<y, x % y>>]
    <2>1. <<x, y>> \in Nat \X Nat /\ <<x, y>>[1] = x /\ <<x, y>>[2] = y
      OBVIOUS
    <2>. QED
      BY <1>4, <2>1
  <1>. QED
    BY <1>5
(* There is one rest, and it grows with both numbers.                      *)
LEMMA OneRest ==
    ASSUME NEW y \in Nat \ {0}, NEW q \in Nat, NEW r \in 0..y - 1
    PROVE  (y * q + r) % y = r
  <1>1. PICK x \in Nat : x = y * q + r
    <2>1. y * q + r \in Nat
      OBVIOUS
    <2>. QED
      BY <2>1
  <1>2. PICK p, t \in Nat : p = x \div y /\ t = x % y /\ x = y * p + t /\ t \in 0..y - 1
    BY RestIs
  <1>3. y * (q - p) = y * q - y * p /\ y * (p - q) = y * p - y * q
    OBVIOUS
  <1>4. PICK e \in Int : e = q - p
    OBVIOUS
  <1>5. y * e = t - r /\ y * (-e) = r - t
    BY <1>1, <1>2, <1>3, <1>4
  <1>6. (e > 0 => y * e >= y) /\ (e < 0 => y * (-e) >= y)
    OBVIOUS
  <1>7. e = 0
    BY <1>2, <1>4, <1>5, <1>6
  <1>8. t = r
    BY <1>2, <1>5, <1>7
  <1>. QED
    BY <1>1, <1>2, <1>8

LEMMA RestScales ==
    ASSUME NEW k \in Nat \ {0}, NEW x \in Nat, NEW y \in Nat \ {0}
    PROVE  (k * x) % (k * y) = k * (x % y)
  <1>1. PICK q, r \in Nat : q = x \div y /\ r = x % y /\ x = y * q + r /\ r < y
    BY RestIs
  <1>2. k * x = (k * y) * q + k * r
    <2>1. (k * y) * q = k * (y * q) /\ k * (y * q + r) = k * (y * q) + k * r
      OBVIOUS
    <2>. QED
      BY <1>1, <2>1
  <1>3. k * y \in Nat \ {0} /\ k * r \in 0..(k * y) - 1
    <2>1. k * y \in Nat /\ k * r \in Nat /\ k * y >= 1
      OBVIOUS
    <2>2. k * (y - r) = k * y - k * r /\ k * (y - r) >= 1
      BY <1>1
    <2>. QED
      BY <2>1, <2>2
  <1>. QED
    BY <1>1, <1>2, <1>3, OneRest

(* Euclid's divisor is a measure, and grows with both numbers.             *)
LEMMA DivisorMeasures ==
    ASSUME NEW x \in Nat, NEW y \in Nat \ {0}
    PROVE  Divisor[<<x, y>>] \in Nat \ {0} /\ Measures(Divisor[<<x, y>>], x, y)
  <1> DEFINE Good(u, v) == Divisor[<<u, v>>] \in Nat \ {0} /\ Measures(Divisor[<<u, v>>], u, v)
             Bad == {v \in Nat \ {0} : \E u \in Nat : ~Good(u, v)}
  <1>1. SUFFICES ASSUME Bad # {} PROVE FALSE
    OBVIOUS
  <1>2. PICK v \in Bad : \A w \in Bad : v <= w
    BY <1>1, LeastIs
  <1>3. PICK u \in Nat : v \in Nat \ {0} /\ ~Good(u, v)
    BY <1>2
  <1>4. PICK r \in Nat : r = u % v /\ r < v
    BY <1>3, RestIs
  <1>5. Divisor[<<u, v>>] = Divisor[<<v, r>>]
    BY <1>3, <1>4, DivisorIs
  <1>6. CASE r = 0
    <2>1. Divisor[<<v, r>>] = v
      BY <1>3, <1>6, DivisorIs
    <2>2. v = v * 1 /\ r = v * 0
      BY <1>3, <1>6
    <2>3. Measures(v, v, r)
      BY <1>3, <2>2 DEF Measures
    <2>. QED
      BY <1>3, <1>4, <1>5, <2>1, <2>3, RestMeasured
  <1>7. CASE r # 0
    <2>1. r \notin Bad
      BY <1>2, <1>3, <1>4
    <2>2. Good(v, r)
      BY <1>3, <1>7, <2>1
    <2>. QED
      BY <1>3, <1>4, <1>5, <2>2, RestMeasured
  <1>. QED
    BY <1>6, <1>7

LEMMA DivisorScales ==
    ASSUME NEW k \in Nat \ {0}, NEW x \in Nat, NEW y \in Nat
    PROVE  Divisor[<<k * x, k * y>>] = k * Divisor[<<x, y>>]
  <1> DEFINE Good(u, v) == Divisor[<<k * u, k * v>>] = k * Divisor[<<u, v>>]
             Bad == {v \in Nat : \E u \in Nat : ~Good(u, v)}
  <1>1. SUFFICES ASSUME Bad # {} PROVE FALSE
    OBVIOUS
  <1>2. PICK v \in Bad : \A w \in Bad : v <= w
    BY <1>1, LeastIs
  <1>3. PICK u \in Nat : v \in Nat /\ ~Good(u, v)
    BY <1>2
  <1>4. PICK ku, kv \in Nat : ku = k * u /\ kv = k * v
    OBVIOUS
  <1>5. CASE v = 0
    <2>1. kv = 0
      BY <1>4, <1>5
    <2>2. Divisor[<<ku, kv>>] = ku /\ Divisor[<<u, v>>] = u
      BY <1>3, <1>5, <2>1, DivisorIs
    <2>. QED
      BY <1>3, <1>4, <2>2
  <1>6. CASE v # 0
    <2>1. PICK r \in Nat : r = u % v /\ r < v
      BY <1>3, <1>6, RestIs
    <2>2. kv # 0
      BY <1>4, <1>6
    <2>3. ku % kv = k * r
      BY <1>3, <1>4, <1>6, <2>1, RestScales
    <2>4. Divisor[<<u, v>>] = Divisor[<<v, r>>]
      BY <1>3, <1>6, <2>1, DivisorIs
    <2>5. Divisor[<<ku, kv>>] = Divisor[<<kv, k * r>>]
      BY <1>3, <1>4, <2>2, <2>3, DivisorIs
    <2>6. Good(v, r)
      <3>. HIDE DEF Good
      <3>1. r \notin Bad
        <4>. HIDE DEF Bad
        <4>. QED
          BY <1>2, <1>3, <2>1
      <3>. QED
        BY <1>3, <3>1
    <2>7. Divisor[<<kv, k * r>>] = k * Divisor[<<v, r>>]
      BY <1>4, <2>6
    <2>8. Divisor[<<ku, kv>>] = k * Divisor[<<u, v>>]
      BY <2>4, <2>5, <2>7
    <2>9. Divisor[<<k * u, k * v>>] = k * Divisor[<<u, v>>]
      BY <1>4, <2>8
    <2>. QED
      BY <1>3, <2>9
  <1>. QED
    BY <1>5, <1>6

(* A ratio is that of its two numbers, and one of the same numbers scaled. *)
Ratios == [over : Nat \ {0}, under : Nat \ {0}]

LEMMA Divided == \A g \in Nat \ {0}, a \in Nat : (g * a) \div g = a
  <1>1. SUFFICES ASSUME NEW g \in Nat \ {0}, NEW a \in Nat PROVE (g * a) \div g = a
    OBVIOUS
  <1>2. PICK x \in Nat : x = g * a
    OBVIOUS
  <1>3. PICK q, r \in Nat : q = x \div g /\ r = x % g /\ x = g * q + r
    BY RestIs
  <1>4. r = 0
    <2>1. 0 \in 0..g - 1 /\ g * a + 0 = g * a
      OBVIOUS
    <2>. QED
      BY <1>2, <1>3, <2>1, OneRest
  <1>5. g * q = g * a
    BY <1>2, <1>3, <1>4
  <1>6. q = a
    BY <1>5
  <1>. QED
    BY <1>2, <1>3, <1>6

LEMMA RatioIs ==
    ASSUME NEW x \in Nat \ {0}, NEW y \in Nat \ {0}
    PROVE  /\ Ratio(x, y) \in Ratios
           /\ \E g \in Nat \ {0} : /\ x = g * Ratio(x, y).over /\ y = g * Ratio(x, y).under
                                   /\ g = Divisor[<<x, y>>]
  <1>1. PICK g \in Nat \ {0} : g = Divisor[<<x, y>>] /\ Measures(g, x, y)
    BY DivisorMeasures
  <1>2. PICK a, b \in Nat : x = g * a /\ y = g * b
    BY <1>1 DEF Measures
  <1>3. a # 0 /\ b # 0
    BY <1>2
  <1>4. x \div g = a /\ y \div g = b
    BY <1>2, Divided
  <1>5. Ratio(x, y) = [over |-> a, under |-> b]
    BY <1>1, <1>4 DEF Ratio
  <1>. QED
    BY <1>1, <1>2, <1>3, <1>5 DEF Ratios

LEMMA RatioScales ==
    ASSUME NEW k \in Nat \ {0}, NEW x \in Nat \ {0}, NEW y \in Nat \ {0}
    PROVE  Ratio(k * x, k * y) = Ratio(x, y)
  <1>1. PICK g \in Nat \ {0} : /\ x = g * Ratio(x, y).over /\ y = g * Ratio(x, y).under
                               /\ g = Divisor[<<x, y>>]
    BY RatioIs
  <1>2. PICK a, b \in Nat \ {0} : a = Ratio(x, y).over /\ b = Ratio(x, y).under
    BY RatioIs DEF Ratios
  <1>3. PICK m \in Nat \ {0} : m = k * g
    BY SMT
  <1>4. k * x = m * a /\ k * y = m * b
    <2>1. (k * g) * a = k * (g * a) /\ (k * g) * b = k * (g * b)
      OBVIOUS
    <2>. QED
      BY <1>1, <1>2, <1>3, <2>1
  <1>5. Divisor[<<k * x, k * y>>] = m
    BY <1>1, <1>3, DivisorScales
  <1>6. (m * a) \div m = a /\ (m * b) \div m = b
    BY Divided
  <1>7. Ratio(k * x, k * y) = [over |-> a, under |-> b]
    BY <1>4, <1>5, <1>6 DEF Ratio
  <1>8. Ratio(x, y) = [over |-> a, under |-> b]
    BY <1>2 DEF Ratio
  <1>. QED
    BY <1>7, <1>8

LEMMA SameRatio ==
    ASSUME NEW x \in Nat \ {0}, NEW y \in Nat \ {0}, NEW u \in Nat \ {0}, NEW v \in Nat \ {0},
           x * v = u * y
    PROVE  Ratio(x, y) = Ratio(u, v)
  <1>1. v * x = y * u /\ v * y = y * v
    OBVIOUS
  <1>2. Ratio(v * x, v * y) = Ratio(x, y) /\ Ratio(y * u, y * v) = Ratio(u, v)
    BY RatioScales
  <1>. QED
    BY <1>1, <1>2

(* Products with a common factor.                                          *)
LEMMA Cancelled ==
    ASSUME NEW k \in Nat \ {0}, NEW a \in Nat, NEW b \in Nat, k * a = k * b
    PROVE  a = b
  <1>1. k * (a - b) = k * a - k * b
    OBVIOUS
  <1>2. PICK d \in Int : d = a - b
    OBVIOUS
  <1>3. k * d = 0
    BY <1>1, <1>2
  <1>4. (d > 0 => k * d > 0) /\ (d < 0 => k * d < 0)
    OBVIOUS
  <1>. QED
    BY <1>2, <1>3, <1>4

(* A ratio says how its numbers are to each other.                         *)
LEMMA RatioOf ==
    ASSUME NEW x \in Nat \ {0}, NEW y \in Nat \ {0}
    PROVE  /\ Ratio(x, y) \in Ratios
           /\ Ratio(x, y).over \in Nat \ {0} /\ Ratio(x, y).under \in Nat \ {0}
           /\ Ratio(x, y).over * y = x * Ratio(x, y).under
  <1>1. PICK g \in Nat \ {0} : x = g * Ratio(x, y).over /\ y = g * Ratio(x, y).under
    BY RatioIs
  <1>2. PICK a, b \in Nat \ {0} : a = Ratio(x, y).over /\ b = Ratio(x, y).under
    BY RatioIs DEF Ratios
  <1>3. a * (g * b) = (g * a) * b
    OBVIOUS
  <1>. QED
    BY <1>1, <1>2, <1>3, RatioIs

(* Two ratios scaled by the same third are to each other what they were.   *)
LEMMA ScaledAlike ==
    ASSUME NEW p \in Ratios, NEW q \in Ratios, NEW r \in Ratios
    PROVE  /\ Times(p, r) \in Ratios
           /\ Over(p, q) \in Ratios
           /\ Over(Times(p, r), Times(q, r)) = Over(p, q)
           /\ Over(p, Times(q, Over(p, q))) = Ratio(1, 1)
  <1>1. PICK a, b, c, d, e, f \in Nat \ {0} :
           /\ a = p.over /\ b = p.under /\ c = q.over /\ d = q.under /\ e = r.over /\ f = r.under
    BY DEF Ratios
  <1>2. PICK ae, bf, ce, df, ad, bc \in Nat \ {0} :
           ae = a * e /\ bf = b * f /\ ce = c * e /\ df = d * f /\ ad = a * d /\ bc = b * c
    <2>1. \A m, n \in Nat \ {0} : m * n \in Nat \ {0}
      OBVIOUS
    <2>2. /\ a * e \in Nat \ {0} /\ b * f \in Nat \ {0} /\ c * e \in Nat \ {0}
          /\ d * f \in Nat \ {0} /\ a * d \in Nat \ {0} /\ b * c \in Nat \ {0}
      BY <2>1
    <2>. QED
      BY <2>2
  <1>3. /\ Times(p, r) = Ratio(ae, bf) /\ Times(q, r) = Ratio(ce, df)
        /\ Over(p, q) = Ratio(ad, bc)
    BY <1>1, <1>2 DEF Times, Over, Ratio
  <1>4. Times(p, r) \in Ratios /\ Times(q, r) \in Ratios /\ Over(p, q) \in Ratios
    BY <1>3, RatioOf
  <1>5. Over(Times(p, r), Times(q, r)) = Over(p, q)
    <2>1. PICK x, y, u, v \in Nat \ {0} :
             /\ x = Times(p, r).over /\ y = Times(p, r).under
             /\ u = Times(q, r).over /\ v = Times(q, r).under
      BY <1>4 DEF Ratios
    <2>2. x * bf = ae * y /\ u * df = ce * v
      BY <1>3, <2>1, RatioOf
    <2>3. PICK xv, yu \in Nat \ {0} : xv = x * v /\ yu = y * u
      <3>1. \A m, n \in Nat \ {0} : m * n \in Nat \ {0}
        OBVIOUS
      <3>. QED
        BY <3>1
    <2>4. (x * bf) * (ce * v) = (ae * y) * (u * df)
      BY <2>2
    <2>5. (e * f) * (xv * bc) = (x * bf) * (ce * v)
      <3>1. (e * f) * ((x * v) * (b * c)) = (x * (b * f)) * ((c * e) * v)
        OBVIOUS
      <3>. QED
        BY <1>2, <2>3, <3>1
    <2>6. (e * f) * (ad * yu) = (ae * y) * (u * df)
      <3>1. (e * f) * ((a * d) * (y * u)) = ((a * e) * y) * (u * (d * f))
        OBVIOUS
      <3>. QED
        BY <1>2, <2>3, <3>1
    <2>7. xv * bc = ad * yu
      <3>1. PICK k \in Nat \ {0} : k = e * f
        OBVIOUS
      <3>2. PICK m, n \in Nat : m = xv * bc /\ n = ad * yu
        OBVIOUS
      <3>3. k * m = k * n
        BY <2>4, <2>5, <2>6, <3>1, <3>2
      <3>. QED
        BY <3>2, <3>3, Cancelled
    <2>8. Ratio(xv, yu) = Ratio(ad, bc)
      BY <2>7, SameRatio
    <2>9. Over(Times(p, r), Times(q, r)) = Ratio(xv, yu)
      BY <2>1, <2>3 DEF Over
    <2>. QED
      BY <1>3, <2>8, <2>9
  <1>6. Over(p, Times(q, Over(p, q))) = Ratio(1, 1)
    <2>1. PICK g, h \in Nat \ {0} : g = Over(p, q).over /\ h = Over(p, q).under
      BY <1>4 DEF Ratios
    <2>2. g * bc = ad * h
      BY <1>3, <2>1, RatioOf
    <2>3. PICK cg, dh \in Nat \ {0} : cg = c * g /\ dh = d * h
      <3>1. \A m, n \in Nat \ {0} : m * n \in Nat \ {0}
        OBVIOUS
      <3>. QED
        BY <3>1
    <2>4. Times(q, Over(p, q)) = Ratio(cg, dh)
      BY <1>1, <2>1, <2>3 DEF Times
    <2>5. PICK x, y \in Nat \ {0} : x = Ratio(cg, dh).over /\ y = Ratio(cg, dh).under
      BY RatioOf
    <2>6. x * dh = cg * y
      BY <2>5, RatioOf
    <2>7. a * y = b * x
      <3>1. (c * g) * (b * x) = (g * (b * c)) * x
        OBVIOUS
      <3>2. (x * (d * h)) * a = ((a * d) * h) * x
        OBVIOUS
      <3>3. cg * (b * x) = (ad * h) * x
        BY <1>2, <2>2, <2>3, <3>1
      <3>4. (x * dh) * a = (ad * h) * x
        BY <1>2, <2>3, <3>2
      <3>5. (cg * y) * a = cg * (a * y)
        OBVIOUS
      <3>6. cg * (a * y) = cg * (b * x)
        BY <2>6, <3>3, <3>4, <3>5
      <3>. QED
        <4>1. PICK m, n \in Nat : m = a * y /\ n = b * x
          OBVIOUS
        <4>. QED
          BY <3>6, <4>1, Cancelled
    <2>8. PICK ay \in Nat \ {0} : ay = a * y
      <3>1. \A m, n \in Nat \ {0} : m * n \in Nat \ {0}
        OBVIOUS
      <3>. QED
        BY <3>1
    <2>9. Over(p, Times(q, Over(p, q))) = Ratio(ay, ay)
      BY <1>1, <2>4, <2>5, <2>7, <2>8 DEF Over
    <2>10. Ratio(ay, ay) = Ratio(1, 1)
      BY SameRatio
    <2>. QED
      BY <2>9, <2>10
  <1>. QED
    BY <1>4, <1>5, <1>6

-----------------------------------------------------------------------------
(* The rolls taken out of a series                                         *)

(* What is made from the last of n steps to the first is made somehow.     *)
Backwards(f, n, M, base, step) ==
    /\ f \in [1..n + 1 -> M] /\ f[n + 1] = base
    /\ \A i \in 1..n : f[i] = step[i][f[i + 1]]

LEMMA MadeBackwards ==
    ASSUME NEW n \in Nat, NEW M, NEW base \in M, NEW step \in [1..n -> [M -> M]]
    PROVE  \E f : Backwards(f, n, M, base, step)
  <1> DEFINE Makes(f, k) ==
                 /\ f \in [n + 1 - k..n + 1 -> M] /\ f[n + 1] = base
                 /\ \A i \in n + 1 - k..n : f[i] = step[i][f[i + 1]]
             Bad == {k \in 0..n : ~\E f : Makes(f, k)}
  <1>1. CASE Bad = {}
    <2>1. n \in 0..n
      OBVIOUS
    <2>2. PICK f : Makes(f, n)
      <3>. HIDE DEF Makes
      <3>. QED
        BY <1>1, <2>1
    <2>3. n + 1 - n = 1
      OBVIOUS
    <2>. QED
      BY <2>2, <2>3 DEF Backwards
  <1>2. CASE Bad # {}
    <2>1. PICK k \in Bad : \A j \in Bad : k <= j
      <3>1. Bad \in SUBSET Nat
        OBVIOUS
      <3>. HIDE DEF Bad
      <3>. QED
        BY <1>2, <3>1, LeastIs
    <2>2. k # 0
      <3> DEFINE f == [i \in n + 1..n + 1 |-> base]
      <3>1. Makes(f, 0)
        OBVIOUS
      <3>. QED
        BY <3>1
    <2>3. PICK h \in 0..n : h = k - 1
      BY <2>2
    <2>4. PICK f : Makes(f, h)
      <3>. HIDE DEF Makes
      <3>1. h \notin Bad
        <4>1. k \in Nat
          OBVIOUS
        <4>. HIDE DEF Bad
        <4>. QED
          BY <2>1, <2>3, <4>1
      <3>. QED
        BY <3>1
    <2>5. PICK t \in 1..n : t = n + 1 - k /\ t + 1 = n + 1 - h
      BY <2>2, <2>3
    <2>6. f \in [t + 1..n + 1 -> M] /\ f[n + 1] = base /\ \A i \in t + 1..n : f[i] = step[i][f[i + 1]]
      BY <2>4, <2>5
    <2>7. t + 1 \in t + 1..n + 1 /\ f[t + 1] \in M
      BY <2>6
    <2>8. step[t][f[t + 1]] \in M
      BY <2>7
    <2> DEFINE e == [i \in t..n + 1 |-> IF i = t THEN step[t][f[t + 1]] ELSE f[i]]
    <2>9. e \in [t..n + 1 -> M]
      BY <2>6, <2>8
    <2>10. e[n + 1] = base /\ \A i \in t..n : e[i] = step[i][e[i + 1]]
      <3>1. n + 1 \in t..n + 1 /\ n + 1 # t
        OBVIOUS
      <3>2. ASSUME NEW i \in t..n PROVE e[i] = step[i][e[i + 1]]
        <4>1. i \in t..n + 1 /\ i + 1 \in t..n + 1 /\ i + 1 # t
          OBVIOUS
        <4>2. e[i + 1] = f[i + 1]
          BY <4>1
        <4>3. CASE i = t
          BY <4>1, <4>2, <4>3
        <4>4. CASE i # t
          <5>1. e[i] = f[i] /\ i \in t + 1..n
            BY <4>1, <4>4
          <5>. QED
            BY <2>6, <4>2, <5>1
        <4>. QED
          BY <4>3, <4>4
      <3>. QED
        BY <2>6, <3>1, <3>2
    <2>. HIDE DEF e
    <2>11. Makes(e, k)
      BY <2>5, <2>9, <2>10
    <2>. QED
      BY <2>1, <2>11
  <1>. QED
    BY <1>1, <1>2

(* What is so at the last of n steps, and stays so back to the first.      *)
SeriesFits == series \in Seq(BarShapes)

LEMMA BarFits ==
    ASSUME SeriesFits
    PROVE  /\ Len(series) \in Nat /\ Rows = 1..Len(series)
           /\ \A i \in Rows : /\ series[i].low \in Nat \ {0} /\ series[i].high \in Nat \ {0}
                              /\ Close(i) \in Nat \ {0} /\ series[i].open \in Nat
                              /\ series[i].low <= Close(i) /\ Close(i) <= series[i].high
                              /\ series[i].close = Close(i)
           /\ RollIndices \subseteq 2..Len(series) /\ RolloverGaps \subseteq 2..Len(series)
  <1>1. Len(series) \in Nat /\ Rows = 1..Len(series) /\ \A i \in Rows : series[i] \in BarShapes
    BY DEF SeriesFits, Rows
  <1>2. ASSUME NEW b \in BarShapes
        PROVE  /\ b.low \in Nat \ {0} /\ b.high \in Nat \ {0} /\ b.close \in Nat \ {0}
               /\ b.open \in Nat /\ b.low <= b.close /\ b.close <= b.high
    <2>1. b.open \in Nat /\ b.high \in Nat /\ b.low \in Nat /\ b.close \in Nat
      BY ResearchAssumption
    <2>. QED
      BY <2>1, ResearchAssumption
  <1>3. RollIndices \subseteq 2..Len(series) /\ RolloverGaps \subseteq 2..Len(series)
    BY <1>1 DEF RollIndices, RolloverGaps, RollPoint
  <1>. QED
    BY <1>1, <1>2, <1>3 DEF Close

LEMMA Unscaled ==
    ASSUME SeriesFits
    PROVE  [j \in Rows |-> Ratio(Close(j), 1)] \in [Rows -> Ratios]
  <1>1. \A j \in Rows : Ratio(Close(j), 1) \in Ratios
    BY BarFits, RatioOf
  <1>. QED
    BY <1>1

LEMMA ScaledFits ==
    ASSUME SeriesFits, NEW a \in [Rows -> Ratios], NEW i \in RollIndices
    PROVE  /\ ScaledBefore(a, i) \in [Rows -> Ratios]
           /\ i \in Rows /\ i - 1 \in Rows /\ i > 1 /\ Over(a[i], a[i - 1]) \in Ratios
           /\ \A j \in Rows : ScaledBefore(a, i)[j]
                                 = IF j < i THEN Times(a[j], Over(a[i], a[i - 1])) ELSE a[j]
  <1>1. i \in Rows /\ i - 1 \in Rows /\ i > 1
    BY BarFits
  <1>2. PICK r \in Ratios : r = Over(a[i], a[i - 1])
    BY <1>1, ScaledAlike
  <1>3. ScaledBefore(a, i) = [j \in Rows |-> IF j < i THEN Times(a[j], r) ELSE a[j]]
    BY <1>2 DEF ScaledBefore
  <1>4. \A j \in Rows : Times(a[j], r) \in Ratios
    BY ScaledAlike
  <1>. QED
    BY <1>1, <1>2, <1>3, <1>4

LEMMA RatioAdjustedFromIs ==
    ASSUME SeriesFits
    PROVE  RatioAdjustedFrom = [i \in 1..Len(series) + 1 |->
              IF i > Len(series) THEN [j \in Rows |-> Ratio(Close(j), 1)]
              ELSE IF i \in RollIndices THEN ScaledBefore(RatioAdjustedFrom[i + 1], i)
              ELSE RatioAdjustedFrom[i + 1]]
  <1> DEFINE n == Len(series)
             M == [Rows -> Ratios]
             base == [j \in Rows |-> Ratio(Close(j), 1)]
             step == [i \in 1..n |->
                        [m \in M |-> IF i \in RollIndices THEN ScaledBefore(m, i) ELSE m]]
  <1>1. base \in M /\ n \in Nat
    BY Unscaled, BarFits
  <1>2. step \in [1..n -> [M -> M]]
    <2>1. \A i \in 1..n, m \in M : (IF i \in RollIndices THEN ScaledBefore(m, i) ELSE m) \in M
      BY ScaledFits
    <2>. HIDE DEF M, n
    <2>. QED
      BY <2>1
  <1>3. \A i \in 1..n, m \in M : step[i][m] = IF i \in RollIndices THEN ScaledBefore(m, i) ELSE m
    OBVIOUS
  <1>. HIDE DEF base, step, M
  <1>4. PICK f \in [1..n + 1 -> M] : f[n + 1] = base /\ \A i \in 1..n : f[i] = step[i][f[i + 1]]
    <2>. HIDE DEF n
    <2>1. PICK f : Backwards(f, n, M, base, step)
      BY <1>1, <1>2, MadeBackwards, Zenon
    <2>. QED
      BY <2>1 DEF Backwards
  <1>5. \A i \in 1..n + 1 : f[i] = IF i > n THEN base
                                   ELSE IF i \in RollIndices THEN ScaledBefore(f[i + 1], i)
                                   ELSE f[i + 1]
    <2>1. ASSUME NEW i \in 1..n + 1
          PROVE  f[i] = IF i > n THEN base ELSE IF i \in RollIndices THEN ScaledBefore(f[i + 1], i)
                        ELSE f[i + 1]
      <3>1. CASE i > n
        <4>1. i = n + 1
          BY <1>1, <3>1
        <4>. QED
          BY <1>4, <3>1, <4>1
      <3>2. CASE ~(i > n)
        <4>1. i \in 1..n /\ i + 1 \in 1..n + 1
          BY <1>1, <3>2
        <4>2. f[i + 1] \in M
          BY <4>1
        <4>. QED
          BY <1>3, <1>4, <3>2, <4>1, <4>2
      <3>. QED
        BY <3>1, <3>2
    <2>. QED
      BY <2>1
  <1>6. f = [i \in 1..n + 1 |-> IF i > n THEN base
                                ELSE IF i \in RollIndices THEN ScaledBefore(f[i + 1], i)
                                ELSE f[i + 1]]
    BY <1>5
  <1>. QED
    BY <1>6, Zenon DEF RatioAdjustedFrom, base, n

(* The rolls from bar i on are taken out, and nothing else is changed.     *)
TakenOut(a, i) ==
    /\ a \in [Rows -> Ratios]
    /\ \A j \in Rows \ {1} : Over(a[j], a[j - 1]) = IF j >= i /\ j \in RollIndices THEN Ratio(1, 1)
                                                    ELSE Ratio(Close(j), Close(j - 1))

LEMMA NoneTakenOut ==
    ASSUME SeriesFits
    PROVE  TakenOut([j \in Rows |-> Ratio(Close(j), 1)], Len(series) + 1)
  <1> DEFINE a == [j \in Rows |-> Ratio(Close(j), 1)]
  <1>1. a \in [Rows -> Ratios]
    BY Unscaled
  <1>2. ASSUME NEW j \in Rows \ {1}
        PROVE  /\ Over(a[j], a[j - 1]) = Ratio(Close(j), Close(j - 1))
               /\ ~(j >= Len(series) + 1)
    <2>1. /\ j \in Rows /\ j - 1 \in Rows /\ ~(j >= Len(series) + 1)
          /\ Close(j) \in Nat \ {0} /\ Close(j - 1) \in Nat \ {0}
      BY BarFits
    <2>2. PICK x, y \in Nat \ {0} : x = Close(j) /\ y = Close(j - 1)
      BY <2>1
    <2>3. /\ Divisor[<<x, 1>>] = 1 /\ Divisor[<<y, 1>>] = 1
      <3>1. x % 1 = 0 /\ y % 1 = 0
        OBVIOUS
      <3>2. ASSUME NEW m \in Nat PROVE Divisor[<<m, 1>>] = Divisor[<<1, m % 1>>]
        <4>1. 1 \in Nat /\ 1 # 0
          OBVIOUS
        <4>. QED
          BY <4>1, DivisorIs
      <3>3. Divisor[<<1, 0>>] = 1
        <4>1. 1 \in Nat /\ 0 \in Nat
          OBVIOUS
        <4>. QED
          BY <4>1, DivisorIs
      <3>4. Divisor[<<x, 1>>] = Divisor[<<1, 0>>] /\ Divisor[<<y, 1>>] = Divisor[<<1, 0>>]
        BY <3>1, <3>2
      <3>. QED
        BY <3>3, <3>4
    <2>4. Ratio(x, 1) = [over |-> x, under |-> 1] /\ Ratio(y, 1) = [over |-> y, under |-> 1]
      BY <2>3 DEF Ratio
    <2>5. Over(Ratio(x, 1), Ratio(y, 1)) = Ratio(x, y)
      <3>1. x * 1 = x /\ 1 * y = y
        OBVIOUS
      <3>. QED
        BY <2>4, <3>1 DEF Over
    <2>. QED
      BY <2>1, <2>2, <2>5
  <1>. QED
    BY <1>1, <1>2 DEF TakenOut

LEMMA OneMoreTakenOut ==
    ASSUME SeriesFits, NEW i \in RollIndices, NEW a, TakenOut(a, i + 1)
    PROVE  TakenOut(ScaledBefore(a, i), i)
  <1>1. a \in [Rows -> Ratios]
    BY DEF TakenOut
  <1> DEFINE b == ScaledBefore(a, i)
             ratio == Over(a[i], a[i - 1])
  <1>2. /\ b \in [Rows -> Ratios] /\ i \in Rows /\ i - 1 \in Rows /\ i > 1 /\ ratio \in Ratios
        /\ \A j \in Rows : b[j] = IF j < i THEN Times(a[j], ratio) ELSE a[j]
    BY <1>1, ScaledFits
  <1>3. \A j \in Rows : j \in Nat
    BY BarFits
  <1>. HIDE DEF b
  <1>4. ASSUME NEW j \in Rows \ {1}
        PROVE  Over(b[j], b[j - 1]) = IF j >= i /\ j \in RollIndices THEN Ratio(1, 1)
                                      ELSE Ratio(Close(j), Close(j - 1))
    <2>1. j \in Rows /\ j - 1 \in Rows /\ j \in Nat
      BY BarFits
    <2>2. CASE j > i
      <3>1. j >= i + 1 /\ j >= i /\ ~(j < i) /\ ~(j - 1 < i)
        BY <1>2, <1>3, <2>1, <2>2
      <3>2. b[j] = a[j] /\ b[j - 1] = a[j - 1]
        BY <1>2, <2>1, <3>1
      <3>. QED
        BY <3>1, <3>2 DEF TakenOut
    <2>3. CASE j = i
      <3>1. b[i] = a[i] /\ b[i - 1] = Times(a[i - 1], ratio) /\ i >= i
        BY <1>2, <1>3
      <3>2. Over(a[i], Times(a[i - 1], ratio)) = Ratio(1, 1)
        BY <1>1, <1>2, ScaledAlike
      <3>. QED
        BY <2>3, <3>1, <3>2
    <2>4. CASE j < i
      <3>1. b[j] = Times(a[j], ratio) /\ b[j - 1] = Times(a[j - 1], ratio) /\ ~(j >= i + 1) /\ ~(j >= i)
        BY <1>2, <1>3, <2>1, <2>4
      <3>2. Over(Times(a[j], ratio), Times(a[j - 1], ratio)) = Over(a[j], a[j - 1])
        BY <1>1, <1>2, <2>1, ScaledAlike
      <3>. QED
        BY <3>1, <3>2 DEF TakenOut
    <2>. QED
      BY <1>2, <1>3, <2>1, <2>2, <2>3, <2>4
  <1>. QED
    BY <1>2, <1>4 DEF TakenOut, b

LEMMA NoRollTakenOut ==
    ASSUME SeriesFits, NEW i \in Rows \ RollIndices, NEW a, TakenOut(a, i + 1)
    PROVE  TakenOut(a, i)
  <1>1. \A j \in Rows : j \in Nat
    BY BarFits
  <1>2. RollIndices \subseteq Rows
    BY DEF RollIndices
  <1>3. \A j \in RollIndices : j >= i + 1 <=> j >= i
    BY <1>1, <1>2
  <1>4. \A j \in Rows \ {1} : (j >= i + 1 /\ j \in RollIndices) <=> (j >= i /\ j \in RollIndices)
    BY <1>3
  <1>5. a \in [Rows -> Ratios]
    BY DEF TakenOut
  <1>6. ASSUME NEW j \in Rows \ {1}
        PROVE  Over(a[j], a[j - 1]) = IF j >= i /\ j \in RollIndices THEN Ratio(1, 1)
                                      ELSE Ratio(Close(j), Close(j - 1))
    BY <1>4 DEF TakenOut
  <1>. QED
    BY <1>5, <1>6 DEF TakenOut

(* Taking the rolls out leaves every other return what it was.             *)
LEMMA RollsTakenOut == SeriesFits => ReturnsKept
  <1>. SUFFICES ASSUME SeriesFits PROVE ReturnsKept
    OBVIOUS
  <1> DEFINE n == Len(series)
             Bad == {i \in 1..n + 1 : ~TakenOut(RatioAdjustedFrom[i], i)}
  <1>1. n \in Nat /\ Rows = 1..n /\ RollIndices \subseteq 2..n
    BY BarFits
  <1>2. \A i \in 1..n + 1 :
           RatioAdjustedFrom[i] = IF i > n THEN [j \in Rows |-> Ratio(Close(j), 1)]
                                  ELSE IF i \in RollIndices THEN ScaledBefore(RatioAdjustedFrom[i + 1], i)
                                  ELSE RatioAdjustedFrom[i + 1]
    BY RatioAdjustedFromIs
  <1>3. TakenOut(RatioAdjustedFrom[n + 1], n + 1)
    <2>1. n + 1 \in 1..n + 1 /\ n + 1 > n
      BY <1>1
    <2>2. RatioAdjustedFrom[n + 1] = [j \in Rows |-> Ratio(Close(j), 1)]
      BY <1>2, <2>1
    <2>. QED
      BY <2>2, NoneTakenOut
  <1>4. ASSUME NEW i \in 1..n, TakenOut(RatioAdjustedFrom[i + 1], i + 1)
        PROVE  TakenOut(RatioAdjustedFrom[i], i)
    <2>1. i \in 1..n + 1 /\ ~(i > n) /\ i \in Rows
      BY <1>1
    <2>2. CASE i \in RollIndices
      <3>1. RatioAdjustedFrom[i] = ScaledBefore(RatioAdjustedFrom[i + 1], i)
        BY <1>2, <2>1, <2>2
      <3>. QED
        BY <1>4, <2>2, <3>1, OneMoreTakenOut
    <2>3. CASE i \notin RollIndices
      <3>1. RatioAdjustedFrom[i] = RatioAdjustedFrom[i + 1]
        BY <1>2, <2>1, <2>3
      <3>. QED
        BY <1>4, <2>1, <2>3, <3>1, NoRollTakenOut
    <2>. QED
      BY <2>2, <2>3
  <1>5. Bad = {}
    <2>1. SUFFICES ASSUME Bad # {} PROVE FALSE
      OBVIOUS
    <2>2. Bad \in SUBSET (0..n + 1) /\ n + 1 \in Nat
      BY <1>1
    <2>3. PICK m \in Bad : \A i \in Bad : i <= m
      <3>. HIDE DEF Bad
      <3>. QED
        BY <2>1, <2>2, GreatestIs
    <2>4. m \in 1..n
      BY <1>1, <1>3
    <2>5. m + 1 \notin Bad /\ m + 1 \in 1..n + 1
      <3>. HIDE DEF Bad
      <3>. QED
        BY <1>1, <2>3, <2>4
    <2>6. TakenOut(RatioAdjustedFrom[m + 1], m + 1)
      BY <2>5
    <2>. QED
      BY <1>4, <2>4, <2>6
  <1>6. TakenOut(RatioAdjusted, 1)
    <2>1. 1 \in 1..n + 1
      BY <1>1
    <2>. QED
      BY <1>5, <2>1 DEF RatioAdjusted
  <1>7. ASSUME NEW i \in Rows \ {1}
        PROVE  Over(RatioAdjusted[i], RatioAdjusted[i - 1])
                 = IF RollPoint(i) THEN Ratio(1, 1) ELSE Ratio(Close(i), Close(i - 1))
    <2>1. i >= 1 /\ (RollPoint(i) <=> i \in RollIndices)
      BY <1>1 DEF RollIndices
    <2>. QED
      BY <1>6, <2>1 DEF TakenOut
  <1>. QED
    BY <1>7 DEF ReturnsKept

-----------------------------------------------------------------------------
(* The gaps closed by adding                                               *)

LEMMA ShiftedFits ==
    ASSUME SeriesFits, NEW a \in [Rows -> Int], NEW i \in RolloverGaps
    PROVE  /\ ShiftedBefore(a, i) \in [Rows -> Int]
           /\ i \in Rows /\ i - 1 \in Rows /\ i > 1 /\ SessionGap(i) \in Int
           /\ \A j \in Rows : ShiftedBefore(a, i)[j] = IF j < i THEN a[j] + SessionGap(i) ELSE a[j]
  <1>1. i \in Rows /\ i - 1 \in Rows /\ i > 1
    BY BarFits
  <1>2. PICK gap \in Int : gap = SessionGap(i)
    BY <1>1, BarFits DEF SessionGap
  <1>3. ShiftedBefore(a, i) = [j \in Rows |-> IF j < i THEN a[j] + gap ELSE a[j]]
    BY <1>2 DEF ShiftedBefore
  <1>4. \A j \in Rows : a[j] \in Int /\ a[j] + gap \in Int
    OBVIOUS
  <1>. QED
    BY <1>1, <1>2, <1>3, <1>4

LEMMA ShiftsFromIs ==
    ASSUME SeriesFits
    PROVE  ShiftsFrom = [i \in 1..Len(series) + 1 |->
              IF i > Len(series) THEN [j \in Rows |-> 0]
              ELSE IF i \in RolloverGaps THEN ShiftedBefore(ShiftsFrom[i + 1], i)
              ELSE ShiftsFrom[i + 1]]
  <1> DEFINE n == Len(series)
             M == [Rows -> Int]
             base == [j \in Rows |-> 0]
             step == [i \in 1..n |->
                        [m \in M |-> IF i \in RolloverGaps THEN ShiftedBefore(m, i) ELSE m]]
  <1>1. base \in M /\ n \in Nat
    BY BarFits
  <1>2. step \in [1..n -> [M -> M]]
    <2>1. \A i \in 1..n, m \in M : (IF i \in RolloverGaps THEN ShiftedBefore(m, i) ELSE m) \in M
      BY ShiftedFits
    <2>. HIDE DEF M, n
    <2>. QED
      BY <2>1
  <1>3. \A i \in 1..n, m \in M : step[i][m] = IF i \in RolloverGaps THEN ShiftedBefore(m, i) ELSE m
    OBVIOUS
  <1>. HIDE DEF base, step, M
  <1>4. PICK f \in [1..n + 1 -> M] : f[n + 1] = base /\ \A i \in 1..n : f[i] = step[i][f[i + 1]]
    <2>. HIDE DEF n
    <2>1. PICK f : Backwards(f, n, M, base, step)
      BY <1>1, <1>2, MadeBackwards, Zenon
    <2>. QED
      BY <2>1 DEF Backwards
  <1>5. \A i \in 1..n + 1 : f[i] = IF i > n THEN base
                                   ELSE IF i \in RolloverGaps THEN ShiftedBefore(f[i + 1], i)
                                   ELSE f[i + 1]
    <2>1. ASSUME NEW i \in 1..n + 1
          PROVE  f[i] = IF i > n THEN base ELSE IF i \in RolloverGaps THEN ShiftedBefore(f[i + 1], i)
                        ELSE f[i + 1]
      <3>1. CASE i > n
        <4>1. i = n + 1
          BY <1>1, <3>1
        <4>. QED
          BY <1>4, <3>1, <4>1
      <3>2. CASE ~(i > n)
        <4>1. i \in 1..n /\ i + 1 \in 1..n + 1
          BY <1>1, <3>2
        <4>2. f[i + 1] \in M
          BY <4>1
        <4>. QED
          BY <1>3, <1>4, <3>2, <4>1, <4>2
      <3>. QED
        BY <3>1, <3>2
    <2>. QED
      BY <2>1
  <1>6. f = [i \in 1..n + 1 |-> IF i > n THEN base
                                ELSE IF i \in RolloverGaps THEN ShiftedBefore(f[i + 1], i)
                                ELSE f[i + 1]]
    BY <1>5
  <1>. QED
    BY <1>6, Zenon DEF ShiftsFrom, base, n

(* The gaps from bar i on are closed.                                      *)
Closed(a, i) ==
    /\ a \in [Rows -> Int]
    /\ \A j \in Rows \ {1} :
          a[j] - a[j - 1] = IF j >= i /\ j \in RolloverGaps THEN -SessionGap(j) ELSE 0

LEMMA OneMoreClosed ==
    ASSUME SeriesFits, NEW i \in RolloverGaps, NEW a, Closed(a, i + 1)
    PROVE  Closed(ShiftedBefore(a, i), i)
  <1>1. a \in [Rows -> Int]
    BY DEF Closed
  <1>2. PICK gap \in Int : gap = SessionGap(i)
    BY <1>1, ShiftedFits
  <1> DEFINE b == ShiftedBefore(a, i)
  <1>3. /\ b \in [Rows -> Int] /\ i \in Rows /\ i - 1 \in Rows /\ i > 1
        /\ \A j \in Rows : b[j] = IF j < i THEN a[j] + gap ELSE a[j]
    BY <1>1, <1>2, ShiftedFits
  <1>4. \A j \in Rows : j \in Nat /\ a[j] \in Int
    BY <1>1, BarFits
  <1>. HIDE DEF b
  <1>5. ASSUME NEW j \in Rows \ {1}
        PROVE  b[j] - b[j - 1] = IF j >= i /\ j \in RolloverGaps THEN -SessionGap(j) ELSE 0
    <2>1. /\ j \in Rows /\ j - 1 \in Rows /\ j \in Nat
          /\ a[j] - a[j - 1] = IF j >= i + 1 /\ j \in RolloverGaps THEN -SessionGap(j) ELSE 0
      BY BarFits DEF Closed
    <2>2. PICK x, y \in Int : x = a[j] /\ y = a[j - 1]
      BY <1>4, <2>1
    <2>3. CASE j > i
      <3>1. j >= i + 1 /\ j >= i /\ ~(j < i) /\ ~(j - 1 < i)
        BY <1>3, <1>4, <2>1, <2>3
      <3>2. b[j] = a[j] /\ b[j - 1] = a[j - 1]
        BY <1>3, <2>1, <3>1
      <3>. QED
        BY <2>1, <3>1, <3>2
    <2>4. CASE j = i
      <3>1. ~(j >= i + 1) /\ j >= i /\ ~(j < i) /\ j - 1 < i
        BY <2>1, <2>4
      <3>2. b[j] = x /\ b[j - 1] = y + gap /\ x - y = 0
        BY <1>3, <2>1, <2>2, <3>1
      <3>3. b[j] - b[j - 1] = -gap
        BY <3>2
      <3>. QED
        BY <1>2, <2>4, <3>1, <3>3
    <2>5. CASE j < i
      <3>1. ~(j >= i + 1) /\ ~(j >= i) /\ j < i /\ j - 1 < i
        BY <1>3, <1>4, <2>1, <2>5
      <3>2. b[j] = x + gap /\ b[j - 1] = y + gap /\ x - y = 0
        BY <1>3, <2>1, <2>2, <3>1
      <3>. QED
        BY <3>1, <3>2
    <2>. QED
      BY <1>3, <1>4, <2>1, <2>3, <2>4, <2>5
  <1>. QED
    BY <1>3, <1>5 DEF Closed, b

(* The additive way closes the gaps it finds, and what remains is between  *)
(* the two thresholds.                                                     *)
LEMMA GapsShiftedAway == SeriesFits => GapsClosed
  <1>. SUFFICES ASSUME SeriesFits PROVE GapsClosed
    OBVIOUS
  <1> DEFINE n == Len(series)
             Bad == {i \in 1..n + 1 : ~Closed(ShiftsFrom[i], i)}
  <1>1. n \in Nat /\ Rows = 1..n /\ RolloverGaps \subseteq 2..n
    BY BarFits
  <1>2. \A i \in 1..n + 1 :
           ShiftsFrom[i] = IF i > n THEN [j \in Rows |-> 0]
                           ELSE IF i \in RolloverGaps THEN ShiftedBefore(ShiftsFrom[i + 1], i)
                           ELSE ShiftsFrom[i + 1]
    BY ShiftsFromIs
  <1>3. Closed(ShiftsFrom[n + 1], n + 1)
    <2>1. n + 1 \in 1..n + 1 /\ n + 1 > n
      BY <1>1
    <2>2. ShiftsFrom[n + 1] = [j \in Rows |-> 0]
      BY <1>2, <2>1
    <2>3. \A j \in Rows \ {1} : j \in Rows /\ j - 1 \in Rows /\ ~(j >= n + 1)
      BY <1>1
    <2>. QED
      BY <2>2, <2>3 DEF Closed
  <1>4. ASSUME NEW i \in 1..n, Closed(ShiftsFrom[i + 1], i + 1)
        PROVE  Closed(ShiftsFrom[i], i)
    <2>1. i \in 1..n + 1 /\ ~(i > n) /\ i \in Rows
      BY <1>1
    <2>2. CASE i \in RolloverGaps
      <3>1. ShiftsFrom[i] = ShiftedBefore(ShiftsFrom[i + 1], i)
        BY <1>2, <2>1, <2>2
      <3>. QED
        BY <1>4, <2>2, <3>1, OneMoreClosed
    <2>3. CASE i \notin RolloverGaps
      <3>1. ShiftsFrom[i] = ShiftsFrom[i + 1]
        BY <1>2, <2>1, <2>3
      <3>2. \A j \in Rows : (j >= i + 1 /\ j \in RolloverGaps) <=> (j >= i /\ j \in RolloverGaps)
        BY <1>1, <2>3
      <3>. QED
        BY <1>4, <3>1, <3>2 DEF Closed
    <2>. QED
      BY <2>2, <2>3
  <1>5. Bad = {}
    <2>1. SUFFICES ASSUME Bad # {} PROVE FALSE
      OBVIOUS
    <2>2. Bad \in SUBSET (0..n + 1) /\ n + 1 \in Nat
      BY <1>1
    <2>3. PICK m \in Bad : \A i \in Bad : i <= m
      <3>. HIDE DEF Bad
      <3>. QED
        BY <2>1, <2>2, GreatestIs
    <2>4. m \in 1..n
      BY <1>1, <1>3
    <2>5. m + 1 \notin Bad /\ m + 1 \in 1..n + 1
      <3>. HIDE DEF Bad
      <3>. QED
        BY <1>1, <2>3, <2>4
    <2>6. Closed(ShiftsFrom[m + 1], m + 1)
      BY <2>5
    <2>. QED
      BY <1>4, <2>4, <2>6
  <1>6. Closed(Shifts, 1)
    <2>1. 1 \in 1..n + 1
      BY <1>1
    <2>. QED
      BY <1>5, <2>1 DEF Shifts
  <1>7. ASSUME NEW i \in Rows \ {1}
        PROVE  Shifts[i] - Shifts[i - 1] = (IF i \in RolloverGaps THEN -SessionGap(i) ELSE 0)
    <2>1. i >= 1
      BY <1>1
    <2>. QED
      BY <1>6, <2>1 DEF Closed
  <1>8. ASSUME NEW i \in RemainingGaps
        PROVE  Gap(series[i].open, Close(i - 1)) \in NormalGap + 1..GapPoints
    <2>1. /\ i \in Rows /\ i > 1 /\ series[i].pause
          /\ Gap(series[i].open + Shifts[i], Close(i - 1) + Shifts[i - 1]) > NormalGap
      BY <1>8 DEF RemainingGaps
    <2>2. i - 1 \in Rows /\ i \in Rows \ {1}
      BY <1>1, <2>1
    <2>3. PICK o, c, x, y \in Int : /\ o = series[i].open /\ c = Close(i - 1)
                                    /\ x = Shifts[i] /\ y = Shifts[i - 1]
      BY <1>6, <2>1, <2>2, BarFits DEF Closed
    <2>4. Gap(o + x, c + y) > NormalGap /\ x - y = (IF i \in RolloverGaps THEN -(o - c) ELSE 0)
      BY <1>7, <2>1, <2>2, <2>3 DEF SessionGap
    <2>5. NormalGap \in Nat /\ GapPoints \in Nat
      BY ResearchAssumption
    <2>6. i \notin RolloverGaps
      BY <2>4, <2>5 DEF Gap
    <2>7. Gap(o, c) \in Int /\ Gap(o, c) > NormalGap
      BY <2>4, <2>6 DEF Gap
    <2>8. ~(Gap(o, c) > GapPoints)
      BY <2>1, <2>3, <2>6 DEF RolloverGaps
    <2>. QED
      BY <2>3, <2>5, <2>7, <2>8
  <1>. QED
    BY <1>7, <1>8 DEF GapsClosed

-----------------------------------------------------------------------------
(* Labels and samples                                                      *)

LEMMA FirstIs ==
    ASSUME NEW S \in SUBSET Nat, S # {}
    PROVE  First(S) \in S /\ \A j \in S : First(S) <= j
  <1>1. PICK m \in S : \A j \in S : m <= j
    BY LeastIs
  <1>. QED
    BY <1>1 DEF First

(* The bars of the horizon, and those of them that touch a barrier.        *)
LEMMA HorizonIs ==
    ASSUME SeriesFits, NEW i \in Rows, NEW d \in Barriers
    PROVE  /\ i \in Nat /\ i > 0 /\ Horizon \in Nat \ {0} /\ d \in Nat
           /\ Within(i) \subseteq Rows /\ Rows \subseteq Nat
           /\ Upper(i, d) \subseteq Within(i) /\ Lower(i, d) \subseteq Within(i)
           /\ \A j \in Upper(i, d) : series[j].high >= Close(i) + d
           /\ \A j \in Lower(i, d) : series[j].low <= Close(i) - d
  BY BarFits, ResearchAssumption DEF Within, Upper, Lower

(* All of the horizon is known, or there is no label.                      *)
LEMMA KnownHorizon ==
    ASSUME SeriesFits, NEW i \in Rows
    PROVE  Cardinality(Within(i)) < Horizon <=> i > Len(series) - Horizon
  <1>1. /\ Len(series) \in Nat /\ Rows = 1..Len(series) /\ i \in 1..Len(series)
        /\ Horizon \in Nat \ {0}
    BY BarFits, ResearchAssumption
  <1>2. PICK n, k, h \in Nat : n = Len(series) /\ k = i /\ h = Horizon /\ k >= 1 /\ k <= n /\ h > 0
    BY <1>1
  <1>3. CASE k > n - h
    <2>1. Within(i) = k + 1..n
      BY <1>1, <1>2, <1>3 DEF Within
    <2>2. Cardinality(k + 1..n) = n - k
      BY <1>2, FS_Interval
    <2>. QED
      BY <1>2, <1>3, <2>1, <2>2
  <1>4. CASE ~(k > n - h)
    <2>1. Within(i) = k + 1..k + h
      BY <1>1, <1>2, <1>4 DEF Within
    <2>2. Cardinality(k + 1..k + h) = h
      BY <1>2, FS_Interval
    <2>. QED
      BY <1>2, <1>4, <2>1, <2>2
  <1>. QED
    BY <1>3, <1>4

(* A label is what a trade opened at the close would have met first.       *)
LEMMA LabelIsFirstTouch ==
    ASSUME SeriesFits, NEW d \in Barriers, NEW i \in Rows
    PROVE  LET touched == {j \in Within(i) : \/ series[j].high >= Close(i) + d
                                             \/ series[j].low <= Close(i) - d}
               t == First(touched)
           IN  /\ Cardinality(Within(i)) < Horizon => TripleBarrier(i, d) = -1
               /\ ~(Cardinality(Within(i)) < Horizon) =>
                    /\ touched = {} => TripleBarrier(i, d) = 0
                    /\ touched # {} => TripleBarrier(i, d) \in {1, 2}
                    /\ touched # {} /\ Close(t) > Close(i) + d => TripleBarrier(i, d) = 1
                    /\ touched # {} /\ Close(t) < Close(i) - d => TripleBarrier(i, d) = 2
               /\ touched # {} => Close(t) \in Nat
               /\ Close(i) \in Nat /\ d \in Nat
  <1> DEFINE touched == {j \in Within(i) : \/ series[j].high >= Close(i) + d
                                           \/ series[j].low <= Close(i) - d}
             t == First(touched)
             up == Upper(i, d)
             down == Lower(i, d)
             label == TripleBarrier(i, d)
  <1>1. /\ i \in Nat /\ i > 0 /\ Horizon \in Nat \ {0} /\ d \in Nat
        /\ up \in SUBSET Nat /\ down \in SUBSET Nat /\ up \subseteq Rows /\ down \subseteq Rows
        /\ touched = up \cup down
    BY HorizonIs DEF Upper, Lower
  <1>2. label = IF i > Len(series) - Horizon THEN -1
                ELSE IF up = {} /\ down = {} THEN 0
                ELSE IF down = {} THEN 1
                ELSE IF up = {} THEN 2
                ELSE IF First(up) < First(down) THEN 1
                ELSE IF First(down) < First(up) THEN 2
                ELSE IF Close(First(up)) > Close(i) THEN 1 ELSE 2
    BY DEF TripleBarrier
  <1>3. Cardinality(Within(i)) < Horizon <=> i > Len(series) - Horizon
    BY KnownHorizon
  <1>4. /\ up # {} => First(up) \in up /\ First(up) \in Nat /\ \A j \in up : First(up) <= j
        /\ down # {} => First(down) \in down /\ First(down) \in Nat /\ \A j \in down : First(down) <= j
        /\ touched # {} => t \in touched /\ t \in Nat /\ \A j \in touched : t <= j
    BY <1>1, FirstIs
  <1>5. PICK c \in Nat : c = Close(i)
    BY BarFits
  <1>6. \A j \in Rows : /\ Close(j) \in Nat /\ (Close(j) > c + d /\ j \in Within(i) => j \in up)
                        /\ (Close(j) < c - d /\ j \in Within(i) => j \in down)
    <2>1. ASSUME NEW j \in Rows
          PROVE  /\ Close(j) \in Nat /\ (Close(j) > c + d /\ j \in Within(i) => j \in up)
                 /\ (Close(j) < c - d /\ j \in Within(i) => j \in down)
      <3>1. PICK x, lo, hi \in Nat : /\ x = Close(j) /\ lo = series[j].low /\ hi = series[j].high
                                     /\ lo <= x /\ x <= hi
        BY BarFits
      <3>2. (x > c + d => hi >= c + d) /\ (x < c - d => lo <= c - d)
        BY <1>1, <3>1
      <3>. QED
        BY <1>5, <3>1, <3>2 DEF Upper, Lower
    <2>. QED
      BY <2>1
  <1>7. touched # {} => t \in Within(i) /\ t \in Rows /\ Close(t) \in Nat
    BY <1>1, <1>4, <1>6, HorizonIs
  <1>. HIDE DEF touched, t, up, down, label
  <1>8. ASSUME touched # {}, Close(t) > c + d, ~(i > Len(series) - Horizon) PROVE label = 1
    <2>1. t \in up /\ t \in Nat /\ Close(t) \in Nat
      BY <1>4, <1>6, <1>7, <1>8
    <2>2. First(up) = t
      BY <1>1, <1>4, <1>8, <2>1
    <2>3. down # {} => First(down) \in Nat /\ t <= First(down)
      BY <1>1, <1>4, <1>8
    <2>4. Close(t) > c
      BY <1>1, <1>8, <2>1
    <2>. QED
      BY <1>2, <1>5, <1>8, <2>1, <2>2, <2>3, <2>4
  <1>9. ASSUME touched # {}, Close(t) < c - d, ~(i > Len(series) - Horizon) PROVE label = 2
    <2>1. t \in down /\ t \in Nat /\ Close(t) \in Nat
      BY <1>4, <1>6, <1>7, <1>9
    <2>2. First(down) = t
      BY <1>1, <1>4, <1>9, <2>1
    <2>3. up # {} => First(up) \in Nat /\ t <= First(up)
      BY <1>1, <1>4, <1>9
    <2>4. ~(Close(t) > c)
      BY <1>1, <1>9, <2>1
    <2>. QED
      BY <1>2, <1>5, <1>9, <2>1, <2>2, <2>3, <2>4
  <1>10. i > Len(series) - Horizon => label = -1
    BY <1>2
  <1>11. ~(i > Len(series) - Horizon) => /\ touched = {} => label = 0
                                         /\ touched # {} => label \in {1, 2}
    BY <1>1, <1>2
  <1>. QED
    BY <1>1, <1>3, <1>5, <1>7, <1>8, <1>9, <1>10, <1>11 DEF touched, t, label

LEMMA Labelled == SeriesFits => LabelsOfFirstTouch
  <1>. SUFFICES ASSUME SeriesFits, NEW d \in Barriers, NEW i \in Rows
                PROVE  LET touched == {j \in Within(i) : \/ series[j].high >= Close(i) + d
                                                         \/ series[j].low <= Close(i) - d}
                           t == First(touched)
                       IN  IF Cardinality(Within(i)) < Horizon THEN TripleBarrier(i, d) = -1
                           ELSE CASE touched = {} -> TripleBarrier(i, d) = 0
                                  [] touched # {} /\ Close(t) > Close(i) + d -> TripleBarrier(i, d) = 1
                                  [] touched # {} /\ Close(t) < Close(i) - d -> TripleBarrier(i, d) = 2
                                  [] OTHER -> TripleBarrier(i, d) \in {1, 2}
    BY DEF LabelsOfFirstTouch
  <1> DEFINE touched == {j \in Within(i) : \/ series[j].high >= Close(i) + d
                                           \/ series[j].low <= Close(i) - d}
             t == First(touched)
  <1>1. /\ Cardinality(Within(i)) < Horizon => TripleBarrier(i, d) = -1
        /\ ~(Cardinality(Within(i)) < Horizon) =>
             /\ touched = {} => TripleBarrier(i, d) = 0
             /\ touched # {} => TripleBarrier(i, d) \in {1, 2}
             /\ touched # {} /\ Close(t) > Close(i) + d => TripleBarrier(i, d) = 1
             /\ touched # {} /\ Close(t) < Close(i) - d => TripleBarrier(i, d) = 2
        /\ touched # {} => Close(t) \in Nat
        /\ Close(i) \in Nat /\ d \in Nat
    BY LabelIsFirstTouch
  <1>. HIDE DEF touched, t
  <1>2. ~(touched # {} /\ Close(t) > Close(i) + d /\ Close(t) < Close(i) - d)
    BY <1>1
  <1>3. IF Cardinality(Within(i)) < Horizon THEN TripleBarrier(i, d) = -1
        ELSE CASE touched = {} -> TripleBarrier(i, d) = 0
               [] touched # {} /\ Close(t) > Close(i) + d -> TripleBarrier(i, d) = 1
               [] touched # {} /\ Close(t) < Close(i) - d -> TripleBarrier(i, d) = 2
               [] OTHER -> TripleBarrier(i, d) \in {1, 2}
    BY <1>1, <1>2
  <1>. QED
    BY <1>3 DEF touched, t

(* The direction at the horizon, and the triple barrier.                   *)
LEMMA LabelsAgreeAtHorizon == SeriesFits => LabelsAgree
  <1>. SUFFICES ASSUME SeriesFits, NEW d \in Barriers, NEW i \in Rows
                PROVE  /\ Direction(i, d) = 1 /\ Lower(i, d) = {} => TripleBarrier(i, d) = 1
                       /\ Direction(i, d) = 2 /\ Upper(i, d) = {} => TripleBarrier(i, d) = 2
                       /\ (Direction(i, d) = -1) = (TripleBarrier(i, d) = -1)
    BY DEF LabelsAgree
  <1> DEFINE n == Len(series)
             up == Upper(i, d)
             down == Lower(i, d)
             e == i + Horizon
  <1>1. i \in Nat /\ i > 0 /\ Horizon \in Nat \ {0} /\ d \in Nat /\ n \in Nat /\ i \in 1..n /\ Rows = 1..n
    BY HorizonIs, BarFits
  <1>2. i + Horizon > n <=> i > n - Horizon
    BY <1>1
  <1>3. PICK c \in Nat : c = Close(i)
    BY BarFits
  <1>4. ASSUME ~(e > n)
        PROVE  /\ Close(e) - c >= d => e \in up
               /\ Close(e) - c <= -d => e \in down
    <2>1. e \in Rows /\ e \in Within(i)
      BY <1>1, <1>4 DEF Within
    <2>2. PICK x, lo, hi \in Nat : /\ x = Close(e) /\ lo = series[e].low /\ hi = series[e].high
                                   /\ lo <= x /\ x <= hi
      BY <2>1, BarFits
    <2>3. (x - c >= d => hi >= c + d) /\ (x - c <= -d => lo <= c - d)
      BY <1>1, <2>2
    <2>. HIDE DEF e
    <2>. QED
      BY <1>3, <2>1, <2>2, <2>3 DEF Upper, Lower
  <1>5. TripleBarrier(i, d) = IF i > n - Horizon THEN -1
                              ELSE IF up = {} /\ down = {} THEN 0
                              ELSE IF down = {} THEN 1
                              ELSE IF up = {} THEN 2
                              ELSE IF First(up) < First(down) THEN 1
                              ELSE IF First(down) < First(up) THEN 2
                              ELSE IF Close(First(up)) > Close(i) THEN 1 ELSE 2
    BY DEF TripleBarrier
  <1>6. Direction(i, d) = IF e > n THEN -1 ELSE IF Close(e) - c >= d THEN 1
                          ELSE IF Close(e) - c <= -d THEN 2 ELSE 0
    BY <1>3 DEF Direction
  <1>. HIDE DEF up, down, n, e
  <1>7. Direction(i, d) = -1 <=> e > n
    BY <1>6
  <1>8. TripleBarrier(i, d) = -1 <=> i > n - Horizon
    BY <1>5
  <1>9. e > n <=> i > n - Horizon
    BY <1>2 DEF e
  <1>10. (Direction(i, d) = -1) = (TripleBarrier(i, d) = -1)
    BY <1>7, <1>8, <1>9
  <1>11. Direction(i, d) = 1 /\ down = {} => TripleBarrier(i, d) = 1
    BY <1>4, <1>5, <1>6, <1>9
  <1>12. Direction(i, d) = 2 /\ up = {} => TripleBarrier(i, d) = 2
    BY <1>4, <1>5, <1>6, <1>9
  <1>. QED
    BY <1>10, <1>11, <1>12 DEF up, down

(* The rows before the split and those after it.                           *)
LEMMA Separated == SeriesFits => SplitSeparates
  <1>. SUFFICES ASSUME SeriesFits PROVE SplitSeparates
    OBVIOUS
  <1> DEFINE train(s) == BarrierSamples(1, s)
  <1>1. PICK n, s, k, h \in Nat : /\ n = Len(series) /\ s = SplitAt(n) /\ s <= n
                                  /\ k = SeqLen /\ h = Horizon /\ k > 0 /\ h > 0
    <2>1. SeqLen \in Nat \ {0} /\ Horizon \in Nat \ {0}
      BY ResearchAssumption
    <2>2. PICK n \in Nat : n = Len(series)
      BY BarFits
    <2>3. (n * 8) \div 10 \in Nat /\ (n * 8) \div 10 <= n
      <3>1. PICK x \in Nat : x = n * 8
        OBVIOUS
      <3>2. PICK q, r \in Nat : q = x \div 10 /\ r = x % 10 /\ x = 10 * q + r
        BY RestIs
      <3>3. q <= n
        BY <3>1, <3>2
      <3>. QED
        BY <3>1, <3>2, <3>3
    <2>. QED
      BY <2>1, <2>2, <2>3 DEF SplitAt
  <1>2. ASSUME NEW a \in Nat, NEW b \in Nat
        PROVE  BarrierSamples(a, b) = a + k - 1..b - 1 /\ SeriesSamples(a, b) = a + k - 1..b - 1
    <2>1. BarrierSamples(a, b) = a + k - 1..b - 1
      <3>1. \A j \in a + k..b : j - 1 \in a + k - 1..b - 1
        OBVIOUS
      <3>2. \A j \in a + k - 1..b - 1 : j + 1 \in a + k..b /\ j = (j + 1) - 1
        OBVIOUS
      <3>3. BarrierSamples(a, b) = {j - 1 : j \in a + k..b}
        BY <1>1 DEF BarrierSamples
      <3>. QED
        BY <3>1, <3>2, <3>3
    <2>2. SeriesSamples(a, b) = a + k - 1..b - 1
      <3>1. \A j \in 0..b - a + 1 - k - 1 : a + j + k - 1 \in a + k - 1..b - 1
        OBVIOUS
      <3>2. \A j \in a + k - 1..b - 1 : /\ j - (a + k - 1) \in 0..b - a + 1 - k - 1
                                        /\ j = a + (j - (a + k - 1)) + k - 1
        OBVIOUS
      <3>3. SeriesSamples(a, b) = {a + j + k - 1 : j \in 0..b - a + 1 - k - 1}
        BY <1>1 DEF SeriesSamples
      <3>. QED
        BY <3>1, <3>2, <3>3
    <2>. QED
      BY <2>1, <2>2
  <1>3. /\ BarrierSamples(1, s) = k..s - 1 /\ SeriesSamples(1, s) = k..s - 1
        /\ BarrierSamples(s + 1, n) = s + k..n - 1 /\ SeriesSamples(s + 1, n) = s + k..n - 1
    <2>1. 1 + k - 1 = k /\ (s + 1) + k - 1 = s + k
      OBVIOUS
    <2>2. s + 1 \in Nat /\ 1 \in Nat
      OBVIOUS
    <2>. QED
      BY <1>2, <2>1, <2>2
  <1>4. \A e \in k..s - 1 : 1 <= e - k + 1 /\ e < s
    OBVIOUS
  <1>5. \A e \in s + k..n - 1 : s < e - k + 1 /\ e < n
    OBVIOUS
  <1>6. Cardinality({e \in k..s - 1 : e + h > s}) <= h - 1
    <2>1. PICK from \in Nat : from = IF k > s - h + 1 THEN k ELSE s - h + 1
      <3>1. (IF k > s - h + 1 THEN k ELSE s - h + 1) \in Nat
        <4>1. CASE k > s - h + 1
          BY <4>1
        <4>2. CASE ~(k > s - h + 1)
          <5>1. s - h + 1 >= k /\ s - h + 1 \in Int
            BY <4>2
          <5>. QED
            BY <4>2, <5>1
        <4>. QED
          BY <4>1, <4>2
      <3>. QED
        BY <3>1, Zenon
    <2>2. {e \in k..s - 1 : e + h > s} = from..s - 1
      BY <1>1, <2>1
    <2>3. Cardinality(from..s - 1) = IF from > s - 1 THEN 0 ELSE s - 1 - from + 1
      BY FS_Interval
    <2>4. (IF from > s - 1 THEN 0 ELSE s - 1 - from + 1) <= h - 1
      BY <1>1, <2>1
    <2>. QED
      BY <2>2, <2>3, <2>4
  <1>. QED
    BY <1>1, <1>3, <1>4, <1>5, <1>6 DEF SplitSeparates

(* What the scripts make of a series means what they say.                  *)
LEMMA SeriesPrepared == SeriesFits => ResearchSound
  BY RollsTakenOut, GapsShiftedAway, Labelled, LabelsAgreeAtHorizon, Separated DEF ResearchSound

-----------------------------------------------------------------------------
(* The offline scripts.  A series, a directory of models and a backtest's  *)
(* trades have nothing in common either.                                   *)
OfflineInv == SeriesFits /\ TrainingInv /\ ReplayInv

(* A series only grows, by bars of the kinds there are.                    *)
LEMMA SeriesGrows == SeriesFits /\ [Record]_researchVars => SeriesFits'
  <1>1. ASSUME SeriesFits, Record PROVE SeriesFits'
    BY <1>1 DEF SeriesFits, Record
  <1>2. ASSUME SeriesFits, UNCHANGED researchVars PROVE SeriesFits'
    BY <1>2 DEF SeriesFits, researchVars
  <1>. QED
    BY <1>1, <1>2

(* Each of the three keeps its invariant, whatever the others do.          *)
THEOREM OfflineInvariant == Spec => []OfflineInv
  <1>1. Init => OfflineInv
    <2>1. ResearchInit => SeriesFits
      BY DEF ResearchInit, SeriesFits
    <2>. QED
      BY <2>1, EmptyDirectory, NothingTraded DEF Init, WorkbenchInit, OfflineInv
  <1>2. OfflineInv /\ [Next]_componentVars => OfflineInv'
    <2>1. [Next]_componentVars
             => [Record]_researchVars /\ [TrainingNext]_trainingVars /\ [ReplayNext]_replayVars
      BY DEF Next, componentVars, workbenchVars, BrokerPart, CandlePart, BackfillPart,
             BacktestPart, ContractPart, WorkbenchPart, WorkbenchNext, SeriesPart, TrainingPart,
             ReplayPart, IndicatorsPart, FilterPart, SupportPart
    <2>. QED
      BY <2>1, SeriesGrows, TrainingKeeps, ReplayKeeps DEF OfflineInv
  <1>. QED
    BY <1>1, <1>2, PTL DEF Spec

(* The rolls are taken out of a series without touching its other returns, *)
(* labels are those of what was met first, training and validation do not  *)
(* share rows; the files of a directory of models fit each other and are   *)
(* of the best that was learned; a backtest's trades, curve and drawdown   *)
(* are those of its bars.                                                  *)
THEOREM OfflineIsSound == Spec => []OfflineSound
  <1>1. OfflineInv => OfflineSound
    BY SeriesPrepared, DirectoryFits, ReplayFollows DEF OfflineInv, OfflineSound
  <1>. QED
    BY <1>1, OfflineInvariant, PTL
===============================================================================
