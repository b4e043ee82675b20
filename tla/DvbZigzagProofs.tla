-------------------------- MODULE DvbZigzagProofs ---------------------------
(***************************************************************************)
(* For all tunings and any width of unsigned int: how far the search goes  *)
(* from the frequency asked for, whose status is shown, and that the fast  *)
(* search tries every setting, and none of them twice.                     *)
(***************************************************************************)
EXTENDS DvbZigzag, FiniteSetTheorems, TLAPS

CountersInv ==
  /\ caps \in [auto : BOOLEAN, recover : BOOLEAN] /\ stale \in BOOLEAN
  /\ commands \in 0 .. MaxCommands /\ asked \in 0 .. commands
  /\ dropped \in BOOLEAN /\ failed \in BOOLEAN

\* parameters_in is what was asked for, between the turns of the thread.
DriftInv ==
  /\ prm.asked <= asked /\ hw.asked <= asked
  /\ ~failed => prm.freq = 0
  /\ hw.asked = asked /\ ~failed => -tuning.max_drift <= hw.freq /\ hw.freq <= tuning.max_drift

\* As long as the state is RETUNE, nothing has been tuned for the request; after that the
\* hardware has it, or set_frontend has failed and the state is ERROR.
StatusInv ==
  /\ fp.state = Retune => ~fp.status
  /\ ~dropped => prm.asked = asked
  /\ ~dropped /\ asked > 0 /\ fp.state \notin {Retune, Error} => hw.asked = asked

ZigzagInv == TypeOK /\ CountersInv /\ DriftInv /\ StatusInv

-----------------------------------------------------------------------------
(* The settings.                                                           *)

Fp == [state : States, status : BOOLEAN, oneshot : BOOLEAN, inversion : Inversions,
       auto_step : 0 .. UIntMod - 1, auto_sub_step : 0 .. 4,
       started_auto_step : 0 .. UIntMod - 1, check_wrapped : BOOLEAN]

Params == [freq : Int, inversion : Inversions \cup {"auto"}, asked : -1 .. MaxCommands]

LEMMA TuningFacts ==
  ASSUME TypeOK
  PROVE  /\ tuning.step_size \in Nat /\ tuning.max_drift \in Nat
         /\ fp \in Fp /\ prm \in Params /\ hw \in Params
  BY TuningAssumption DEF TypeOK, Fp, Params

\* The groups of flags that the state is compared with.
LEMMA StateFacts ==
  /\ {Idle, Retune, {"TUNING_FAST"}, SearchingSlow, Tuned, {"ZIGZAG_FAST"}, Diseqc, Error} \subseteq States
  /\ Retune \notin {Idle, {"TUNING_FAST"}, SearchingSlow, Tuned, {"ZIGZAG_FAST"}, Diseqc, Error}
  /\ Error # Tuned /\ ~Has(Error, WaitForLock)
  <1>1. "RETUNE" \in Retune
    BY DEF Retune
  <1>3. Error # Tuned /\ ~Has(Error, WaitForLock)
    BY DEF Has, WaitForLock, SearchingFast, SearchingSlow, Diseqc, Error, Tuned
  <1>2. \A x \in {Idle, {"TUNING_FAST"}, SearchingSlow, Tuned, {"ZIGZAG_FAST"}, Diseqc, Error} : "RETUNE" \notin x
    BY DEF Idle, SearchingSlow, Tuned, Diseqc, Error
  <1> QED
    BY <1>1, <1>2, <1>3 DEF States

\* A step that is wrapped at the maximum drift is within it.
LEMMA RangeFacts ==
  ASSUME TypeOK, NEW n \in 0 .. UIntMod - 1
  PROVE  /\ InRange(n) \in 0 .. UIntMod - 1
         /\ InRange(n) * tuning.step_size \in Nat
         /\ InRange(n) * tuning.step_size <= tuning.max_drift
  <1>1. tuning.step_size \in Nat /\ tuning.max_drift \in Nat /\ UIntMod \in Nat /\ UIntMod > 0
    BY TuningFacts, UIntAssumption
  <1>2. n \in Nat /\ n * tuning.step_size \in Nat /\ 0 * tuning.step_size = 0
    BY <1>1
  <1>3. CASE n * tuning.step_size > tuning.max_drift
    <2>1. InRange(n) = 0
      BY <1>3 DEF InRange
    <2> QED
      BY <1>1, <1>2, <2>1
  <1>4. CASE ~(n * tuning.step_size > tuning.max_drift)
    <2>1. InRange(n) = n
      BY <1>4 DEF InRange
    <2> QED
      BY <1>1, <1>2, <1>4, <2>1
  <1> QED
    BY <1>3, <1>4

\* One of several sub-steps is the first.
LEMMA FirstOf ==
  ASSUME NEW S \in SUBSET {0, 1, 2, 3}, S # {}
  PROVE  \E k \in S : \A j \in S : k <= j
  <1>1. CASE 0 \in S
    <2>1. \A j \in S : 0 <= j
      OBVIOUS
    <2> QED
      BY <1>1, <2>1
  <1>2. CASE 0 \notin S /\ 1 \in S
    <2>1. \A j \in S : 1 <= j
      BY <1>2
    <2> QED
      BY <1>2, <2>1
  <1>3. CASE 0 \notin S /\ 1 \notin S /\ 2 \in S
    <2>1. \A j \in S : 2 <= j
      BY <1>3
    <2> QED
      BY <1>3, <2>1
  <1>4. CASE 0 \notin S /\ 1 \notin S /\ 2 \notin S
    <2>1. \A k \in S : k = 3
      BY <1>4
    <2>2. PICK k : k \in S
      OBVIOUS
    <2>3. \A j \in S : k <= j
      BY <2>1, <2>2
    <2> QED
      BY <2>2, <2>3
  <1> QED
    BY <1>1, <1>2, <1>3, <1>4

\* Wherever the search stands, the next setting is within the drift.
LEMMA SettingFacts ==
  ASSUME TypeOK, NEW f \in Fp
  PROVE  LET y == NextSetting(f) IN
         /\ y.step \in 0 .. UIntMod - 1 /\ y.sub \in 0 .. 3 /\ y.inversion \in Inversions
         /\ y.drift \in Int /\ -tuning.max_drift <= y.drift /\ y.drift <= tuning.max_drift
  <1> DEFINE step == InRange(f.auto_step)
             subs == {k \in (IF step = f.auto_step THEN f.auto_sub_step ELSE 0) .. 3 : Ready(step, k)}
             at == IF subs # {} THEN [step |-> step, sub |-> CHOOSE k \in subs : \A j \in subs : k <= j]
                   ELSE [step |-> InRange((step + 1) % UIntMod), sub |-> 0]
             drift == at.step * tuning.step_size
  <1>1. f.auto_step \in 0 .. UIntMod - 1 /\ f.auto_sub_step \in 0 .. 4 /\ f.inversion \in Inversions
    BY DEF Fp
  <1>2. UIntMod \in Nat /\ UIntMod > 0 /\ tuning.max_drift \in Nat
    BY UIntAssumption, TuningFacts
  <1>3. step \in 0 .. UIntMod - 1
    BY <1>1, RangeFacts
  <1>4. (step + 1) % UIntMod \in 0 .. UIntMod - 1
    BY <1>2, <1>3
  <1>5. \E n \in 0 .. UIntMod - 1 : at.step = InRange(n)
    <2> HIDE DEF step, subs
    <2>1. CASE subs # {}
      BY <1>1, <2>1 DEF step
    <2>2. CASE subs = {}
      BY <1>4, <2>2
    <2> QED
      BY <2>1, <2>2
  <1>6. at.sub \in 0 .. 3
    <2>1. subs \subseteq {0, 1, 2, 3}
      BY <1>1
    <2>2. subs # {} => \E k \in subs : \A j \in subs : k <= j
      <3> HIDE DEF subs
      <3> QED
        BY <2>1, FirstOf
    <2>3. subs # {} => (CHOOSE k \in subs : \A j \in subs : k <= j) \in subs
      <3> HIDE DEF subs
      <3> QED
        BY <2>2
    <2>4. 0 \in 0 .. 3 /\ \A k \in {0, 1, 2, 3} : k \in 0 .. 3
      OBVIOUS
    <2> HIDE DEF step, subs
    <2> QED
      BY <2>1, <2>3, <2>4
  <1>7. at.step \in 0 .. UIntMod - 1 /\ drift \in Nat /\ drift <= tuning.max_drift
    BY <1>5, RangeFacts
  <1>8. NextSetting(f) = [step |-> at.step, sub |-> at.sub,
                          drift |-> IF at.sub \in {2, 3} THEN -drift ELSE drift,
                          inversion |-> IF at.sub \in {1, 3} THEN Flip(f.inversion) ELSE f.inversion]
    BY DEF NextSetting
  <1>9. Flip(f.inversion) \in Inversions
    BY DEF Flip, Inversions
  <1> HIDE DEF at, drift
  <1> QED
    BY <1>1, <1>2, <1>6, <1>7, <1>8, <1>9

-----------------------------------------------------------------------------
(* The steps.                                                              *)

\* What a tune does, with the search standing at f.
LEMMA TuneFacts ==
  ASSUME ZigzagInv, NEW f \in Fp, Tune(f)
  PROVE  /\ fp' \in Fp /\ prm' \in Params /\ hw' \in Params /\ failed' \in BOOLEAN
         /\ fp'.state # Retune
         /\ hw'.asked \in {prm.asked, hw.asked} /\ prm'.asked = prm.asked
         /\ \/ failed' /\ fp'.state = Error
            \/ /\ UNCHANGED <<prm, failed>> /\ hw'.asked = prm.asked
               /\ hw'.freq - prm.freq <= tuning.max_drift /\ -tuning.max_drift <= hw'.freq - prm.freq
  <1> DEFINE y == NextSetting(f)
             q == Setting(f)
             p == [prm EXCEPT !.freq = @ + q.freq, !.inversion = q.inversion]
  <1>1. /\ TypeOK /\ prm \in Params /\ prm.freq \in Int /\ prm.inversion \in Inversions \cup {"auto"}
        /\ tuning.max_drift \in Nat /\ failed \in BOOLEAN /\ hw \in Params
    BY TuningFacts DEF ZigzagInv, Params, CountersInv
  <1>2. /\ y.step \in 0 .. UIntMod - 1 /\ y.sub \in 0 .. 3 /\ y.inversion \in Inversions
        /\ y.drift \in Int /\ -tuning.max_drift <= y.drift /\ y.drift <= tuning.max_drift
    BY <1>1, SettingFacts
  <1>3. q.freq = y.drift /\ q.inversion \in Inversions \cup {"auto"}
    BY <1>1, <1>2 DEF Setting
  <1>4. \/ /\ fp' = [Reached(f, y, 1) EXCEPT !.state = IF @ = Retune THEN {"TUNING_FAST"} ELSE @,
                                            !.check_wrapped = TRUE]
           /\ UNCHANGED <<prm, failed>> /\ hw' = p
        \/ /\ failed' = TRUE /\ fp' = [Reached(f, y, 0) EXCEPT !.state = Error]
           /\ prm' = p /\ hw' \in {p, hw}
    BY DEF Tune
  <1> HIDE DEF y, q
  <1>5. p \in Params /\ p.asked = prm.asked /\ p.freq = prm.freq + q.freq
    <2>1. ASSUME NEW a \in Int, NEW v \in Inversions \cup {"auto"}
          PROVE  LET r == [prm EXCEPT !.freq = a, !.inversion = v]
                 IN  r \in Params /\ r.asked = prm.asked /\ r.freq = a
      BY <1>1 DEF Params
    <2>2. prm.freq + q.freq \in Int
      BY <1>1, <1>2, <1>3
    <2> QED
      BY <1>3, <2>1, <2>2
  <1> HIDE DEF p
  <1>6. y.sub + 0 \in 0 .. 4 /\ y.sub + 1 \in 0 .. 4
    BY <1>2
  <1>7. ASSUME NEW a \in {0, 1}
        PROVE  Reached(f, y, a) \in Fp /\ Reached(f, y, a).state = f.state
    BY <1>2, <1>6 DEF Reached, Fp
  <1>8. /\ fp' \in Fp /\ fp'.state # Retune
        /\ fp' = [Reached(f, y, 0) EXCEPT !.state = Error] => fp'.state = Error
    <2>1. CASE fp' = [Reached(f, y, 1) EXCEPT !.state = IF @ = Retune THEN {"TUNING_FAST"} ELSE @,
                                              !.check_wrapped = TRUE]
      <3>1. PICK g \in Fp : g = Reached(f, y, 1)
        BY <1>7
      <3>2. fp' = [g EXCEPT !.state = IF g.state = Retune THEN {"TUNING_FAST"} ELSE g.state, !.check_wrapped = TRUE]
        BY <2>1, <3>1
      <3>3. (IF g.state = Retune THEN {"TUNING_FAST"} ELSE g.state) \in States \ {Retune}
        BY <3>1, StateFacts DEF Fp
      <3> QED
        BY <3>1, <3>2, <3>3 DEF Fp
    <2>2. CASE fp' = [Reached(f, y, 0) EXCEPT !.state = Error]
      <3>1. PICK g \in Fp : g = Reached(f, y, 0)
        BY <1>7
      <3>2. Error \in States /\ Error # Retune
        BY StateFacts
      <3> QED
        BY <2>2, <3>1, <3>2 DEF Fp
    <2>3. fp' = [Reached(f, y, 0) EXCEPT !.state = Error] => fp'.state = Error
      <3>1. PICK g \in Fp : g = Reached(f, y, 0)
        BY <1>7
      <3> QED
        BY <3>1 DEF Fp
    <2> QED
      BY <1>4, <2>1, <2>2, <2>3
  <1>9. p.freq - prm.freq <= tuning.max_drift /\ -tuning.max_drift <= p.freq - prm.freq
    BY <1>1, <1>2, <1>3, <1>5
  <1> QED
    BY <1>1, <1>4, <1>5, <1>8, <1>9

\* Where the search stands before it goes on.
LEMMA StandFacts ==
  ASSUME ZigzagInv
  PROVE  /\ StatusRead \in Fp /\ AfterLoss \in Fp /\ FastFrom \in Fp
         /\ StatusRead.state = fp.state
         /\ fp.state = Retune => ~Wrapped(FastFrom) /\ StatusRead = fp /\ AfterLoss = fp
         /\ fp.state # Retune => AfterLoss.state # Retune
         /\ fp.state # Retune /\ StatusRead.status => HasLock
         /\ AfterLoss.status = StatusRead.status
         /\ fp.state = Error => AfterLoss.state = Error
  <1>0. fp \in Fp /\ HasLock \in BOOLEAN
    BY TuningFacts DEF ZigzagInv, HasLock, CountersInv
  <1>1. StatusRead = [fp EXCEPT !.status = IF fp.state = Retune THEN fp.status ELSE HasLock]
    BY DEF StatusRead
  <1>2. /\ StatusRead \in Fp /\ StatusRead.state = fp.state /\ StatusRead.auto_step = fp.auto_step
        /\ fp.state = Retune => StatusRead = fp
        /\ fp.state # Retune => StatusRead.status = HasLock
    BY <1>0, <1>1 DEF Fp
  <1>3. {"ZIGZAG_FAST"} \in States /\ {"ZIGZAG_FAST"} # Retune /\ Tuned # Retune /\ Error # Tuned
    BY StateFacts
  <1> HIDE DEF StatusRead
  <1>4. Lost(StatusRead) \in Fp /\ Lost(StatusRead).state = {"ZIGZAG_FAST"} /\ Lost(StatusRead).status = StatusRead.status
    BY <1>2, <1>3 DEF Lost, Fp
  <1>5. AfterLoss = IF fp.state = Tuned THEN Lost(StatusRead) ELSE StatusRead
    BY DEF AfterLoss
  <1>6. /\ AfterLoss \in Fp /\ AfterLoss.status = StatusRead.status
        /\ fp.state # Retune => AfterLoss.state # Retune
        /\ fp.state = Retune => AfterLoss = fp
        /\ fp.state = Error => AfterLoss.state = Error
    BY <1>2, <1>3, <1>4, <1>5
  <1>7. CASE fp.state = Retune
    <2>1. FastFrom = [fp EXCEPT !.auto_step = 0, !.auto_sub_step = 0, !.started_auto_step = 0, !.check_wrapped = FALSE]
      BY <1>7 DEF FastFrom
    <2>2. 0 \in 0 .. UIntMod - 1 /\ 0 \in 0 .. 4
      BY UIntAssumption
    <2>3. FastFrom \in Fp /\ ~FastFrom.check_wrapped
      BY <1>0, <2>1, <2>2 DEF Fp
    <2>4. ~Wrapped(FastFrom)
      BY <2>3 DEF Wrapped
    <2> QED
      BY <1>2, <1>6, <1>7, <2>3, <2>4
  <1>8. CASE fp.state # Retune
    <2>1. FastFrom = AfterLoss
      BY <1>8 DEF FastFrom
    <2> QED
      BY <1>2, <1>6, <1>8, <2>1
  <1> QED
    BY <1>7, <1>8

\* The thread: it tunes, or only looks.
LEMMA ThreadStep ==
  ASSUME ZigzagInv, Thread
  PROVE  ZigzagInv'
  <1>0. /\ TypeOK /\ CountersInv /\ DriftInv /\ StatusInv /\ fp \in Fp /\ prm \in Params /\ hw \in Params
        /\ tuning.max_drift \in Nat /\ prm.freq \in Int /\ prm.asked \in Int /\ hw.asked \in Int /\ asked \in Int
        /\ hw.freq \in Int
    BY TuningFacts DEF ZigzagInv, Params, CountersInv
  <1>1. UNCHANGED <<caps, tuning, stale, commands, asked, dropped>>
    BY DEF Thread, OneShot, FoundLock, Watch, Wait, FastTune, FastEnd, SlowTune, history
  <1>2. ASSUME fp' \in Fp, prm' \in Params, hw' \in Params, failed' \in BOOLEAN
        PROVE  TypeOK' /\ CountersInv'
    BY <1>0, <1>1, <1>2 DEF TypeOK, CountersInv, Fp, Params
  <1>3. ASSUME NEW f \in Fp, Tune(f)
        PROVE  ZigzagInv'
    <2>1. /\ fp' \in Fp /\ prm' \in Params /\ hw' \in Params /\ failed' \in BOOLEAN
          /\ fp'.state # Retune
          /\ hw'.asked \in {prm.asked, hw.asked} /\ prm'.asked = prm.asked
          /\ \/ failed' /\ fp'.state = Error
             \/ /\ UNCHANGED <<prm, failed>> /\ hw'.asked = prm.asked
                /\ hw'.freq - prm.freq <= tuning.max_drift /\ -tuning.max_drift <= hw'.freq - prm.freq
      BY <1>3, TuneFacts
    <2>2. hw'.freq \in Int
      BY <2>1 DEF Params
    <2>3. DriftInv'
      BY <1>0, <1>1, <2>1, <2>2 DEF DriftInv
    <2>4. StatusInv'
      BY <1>0, <1>1, <2>1 DEF StatusInv
    <2> QED
      BY <1>2, <2>1, <2>3, <2>4 DEF ZigzagInv
  <1>4. ASSUME fp' \in Fp, prm' \in Params, prm'.freq = prm.freq, prm'.asked = prm.asked, UNCHANGED <<hw, failed>>,
               fp.state = Retune => fp'.state = Retune /\ fp'.status = fp.status,
               fp.state # Retune => fp'.state # Retune,
               fp.state = Error => fp'.state = Error
        PROVE  ZigzagInv'
    <2>1. DriftInv'
      BY <1>0, <1>1, <1>4 DEF DriftInv
    <2>2. StatusInv'
      BY <1>0, <1>1, <1>4 DEF StatusInv
    <2>3. failed' \in BOOLEAN /\ hw' \in Params
      BY <1>0, <1>4 DEF CountersInv
    <2> QED
      BY <1>2, <1>4, <2>1, <2>2, <2>3 DEF ZigzagInv
  <1>5. CASE OneShot
    <2>1. /\ prm' = prm
          /\ \/ fp' = [fp EXCEPT !.state = Tuned] /\ failed' = failed /\ hw' = prm
             \/ fp' = [fp EXCEPT !.state = Error] /\ failed' = TRUE /\ hw' \in {prm, hw}
      BY <1>5 DEF OneShot
    <2>2. Tuned \in States /\ Error \in States /\ Tuned # Retune /\ Error # Retune
      BY StateFacts
    <2>3. fp' \in Fp /\ fp'.state # Retune /\ (fp'.state = Error \/ hw' = prm)
      BY <1>0, <2>1, <2>2 DEF Fp
    <2>4. failed' \in BOOLEAN
      BY <1>0, <2>1 DEF CountersInv
    <2>5. DriftInv'
      BY <1>0, <1>1, <2>1 DEF DriftInv
    <2>6. StatusInv'
      BY <1>0, <1>1, <2>1, <2>3 DEF StatusInv
    <2> QED
      BY <1>0, <1>2, <2>1, <2>3, <2>4, <2>5, <2>6 DEF ZigzagInv
  <1>6. CASE FoundLock
    <2>0. fp.state # Error
      BY <1>6, StateFacts DEF FoundLock
    <2>1. /\ fp.state # Retune /\ fp' = [StatusRead EXCEPT !.state = Tuned] /\ UNCHANGED <<hw, failed>>
          /\ prm' = prm \/ prm' = [prm EXCEPT !.inversion = fp.inversion]
      BY <1>6 DEF FoundLock, Lock, history
    <2>2. StatusRead \in Fp /\ Tuned \in States /\ Tuned # Retune
      BY StandFacts, StateFacts
    <2> HIDE DEF StatusRead
    <2>3. fp' \in Fp /\ fp'.state # Retune
      BY <2>1, <2>2 DEF Fp
    <2>4. prm' \in Params /\ prm'.freq = prm.freq /\ prm'.asked = prm.asked
      BY <1>0, <2>1 DEF Params, Fp
    <2> QED
      BY <1>4, <2>0, <2>1, <2>3, <2>4
  <1>7. CASE Watch \/ Wait
    <2>1. (fp' = StatusRead \/ fp' = AfterLoss) /\ UNCHANGED <<prm, hw, failed>>
      BY <1>7 DEF Watch, Wait, history
    <2> QED
      BY <1>0, <1>4, <2>1, StandFacts
  <1>8. CASE FastTune
    <2>1. Tune(FastFrom) /\ FastFrom \in Fp
      BY <1>8, StandFacts DEF FastTune
    <2> QED
      BY <1>3, <2>1
  <1>9. CASE SlowTune
    <2>1. Tune(StatusRead) /\ StatusRead \in Fp
      BY <1>9, StandFacts DEF SlowTune
    <2> QED
      BY <1>3, <2>1
  <1>10. CASE FastEnd
    <2> DEFINE f == FastFrom
               y == NextSetting(f)
    <2>1. /\ Wrapped(f) /\ UNCHANGED <<prm, hw, failed>>
          /\ fp' = [Reached(f, y, 0) EXCEPT !.state = SearchingSlow, !.started_auto_step = y.step]
      BY <1>10 DEF FastEnd, history
    <2>2. f \in Fp /\ fp.state # Retune
      BY <2>1, StandFacts
    <2>0. fp.state # Error
      <3>1. f = AfterLoss /\ (Has(f.state, SearchingFast) \/ f.state = Retune)
        BY <1>10, <2>2 DEF FastEnd, Fast, FastFrom
      <3>2. ~Has(Error, SearchingFast) /\ Error # Retune
        BY StateFacts DEF Has, WaitForLock
      <3> QED
        BY <3>1, <3>2, StandFacts
    <2>3. y.step \in 0 .. UIntMod - 1 /\ y.sub \in 0 .. 3 /\ y.inversion \in Inversions
      BY <1>0, <2>2, SettingFacts
    <2>4. SearchingSlow \in States /\ SearchingSlow # Retune
      BY StateFacts
    <2> HIDE DEF f, y
    <2>5. y.sub + 0 \in 0 .. 4
      BY <2>3
    <2>6. Reached(f, y, 0) \in Fp
      BY <2>2, <2>3, <2>5 DEF Reached, Fp
    <2>7. fp' \in Fp /\ fp'.state # Retune
      <3>1. PICK g \in Fp : g = Reached(f, y, 0)
        BY <2>6
      <3> QED
        BY <2>1, <2>3, <2>4, <3>1 DEF Fp
    <2> QED
      BY <1>0, <1>4, <2>0, <2>1, <2>2, <2>7
  <1> QED
    BY <1>5, <1>6, <1>7, <1>8, <1>9, <1>10 DEF Thread

\* The ioctls and the signal.
LEMMA CommandStep ==
  ASSUME ZigzagInv, [Next]_vars, ~Thread
  PROVE  ZigzagInv'
  <1>0. /\ TypeOK /\ CountersInv /\ DriftInv /\ StatusInv /\ fp \in Fp /\ prm \in Params /\ hw \in Params
        /\ tuning.max_drift \in Nat /\ prm.asked \in Int /\ hw.asked \in Int /\ asked \in Nat
        /\ commands \in Nat /\ MaxCommands \in Nat
    BY TuningFacts, BoundAssumption DEF ZigzagInv, Params, CountersInv
  <1>1. /\ Idle \in States /\ Retune \in States /\ Diseqc \in States /\ Idle # Retune /\ Diseqc # Retune
    BY StateFacts
  <1>2. Command => commands' \in 0 .. MaxCommands /\ commands' = commands + 1 /\ asked \in 0 .. commands'
                   /\ asked + 1 \in 0 .. commands' /\ asked + 1 \in -1 .. MaxCommands
    BY <1>0 DEF Command, CountersInv
  <1>3. ASSUME NEW t \in Tunings, NEW inversion \in Inversions \cup {"auto"}, SetFrontend(t, inversion)
        PROVE  ZigzagInv'
    <2>1. /\ Command /\ tuning' = t /\ prm' = [freq |-> 0, inversion |-> inversion, asked |-> asked + 1]
          /\ fp' = [fp EXCEPT !.state = Retune, !.status = FALSE]
          /\ asked' = asked + 1 /\ dropped' = FALSE /\ failed' = FALSE
          /\ stale' = HasLock /\ UNCHANGED <<caps, hw>>
      BY <1>3 DEF SetFrontend
    <2>2. HasLock \in BOOLEAN
      BY <1>0 DEF HasLock, CountersInv
    <2>3. fp' \in Fp /\ fp'.state = Retune /\ ~fp'.status
      BY <1>0, <1>1, <2>1 DEF Fp
    <2>4. prm' \in Params /\ prm'.freq = 0 /\ prm'.asked = asked + 1
      BY <1>2, <2>1 DEF Params
    <2>5. TypeOK'
      BY <1>0, <2>1, <2>3, <2>4 DEF TypeOK, Fp, Params
    <2>6. CountersInv'
      BY <1>0, <1>2, <2>1, <2>2 DEF CountersInv
    <2>7. DriftInv'
      BY <1>0, <2>1, <2>4 DEF DriftInv
    <2>8. StatusInv'
      BY <2>1, <2>3, <2>4 DEF StatusInv
    <2> QED
      BY <2>5, <2>6, <2>7, <2>8 DEF ZigzagInv
  <1>4. ASSUME NEW inversion \in Inversions \cup {"auto"}, RejectTune(inversion)
        PROVE  ZigzagInv'
    <2>1. /\ Command /\ prm' = [freq |-> 0, inversion |-> inversion, asked |-> -1] /\ dropped' = TRUE
          /\ UNCHANGED <<caps, tuning, fp, hw, stale, asked, failed>>
      BY <1>4 DEF RejectTune
    <2>2. prm' \in Params /\ prm'.freq = 0 /\ prm'.asked = -1
      BY <1>0, <2>1 DEF Params
    <2>3. TypeOK'
      BY <1>0, <2>1, <2>2 DEF TypeOK, Params
    <2>4. CountersInv'
      BY <1>0, <1>2, <2>1 DEF CountersInv
    <2>5. DriftInv' /\ StatusInv'
      BY <1>0, <2>1, <2>2 DEF DriftInv, StatusInv
    <2> QED
      BY <2>3, <2>4, <2>5 DEF ZigzagInv
  <1>5. ASSUME UNCHANGED <<caps, tuning, prm, hw, asked, failed>>, stale' \in BOOLEAN, fp' \in Fp,
               commands' = commands \/ Command, dropped' \in BOOLEAN, dropped => dropped',
               \/ fp'.state = fp.state /\ fp'.status = fp.status
               \/ fp'.state # Retune /\ (fp.state \in {Retune, Error} => dropped')
        PROVE  ZigzagInv'
    <2>1. TypeOK'
      BY <1>0, <1>5 DEF TypeOK, Fp
    <2>2. CountersInv'
      BY <1>0, <1>2, <1>5 DEF CountersInv
    <2>3. DriftInv'
      BY <1>0, <1>5 DEF DriftInv
    <2>4. StatusInv'
      BY <1>0, <1>5 DEF StatusInv
    <2> QED
      BY <2>1, <2>2, <2>3, <2>4 DEF ZigzagInv
  <1>6. CASE DiseqcCommand
    <2>1. /\ Command /\ fp' = [fp EXCEPT !.state = Diseqc, !.status = FALSE]
          /\ dropped' = (dropped \/ fp.state \in {Retune, Error})
          /\ UNCHANGED <<caps, tuning, prm, hw, stale, asked, failed>>
      BY <1>6 DEF DiseqcCommand
    <2>2. fp' \in Fp /\ fp'.state # Retune
      BY <1>0, <1>1, <2>1 DEF Fp
    <2>3. stale' \in BOOLEAN /\ dropped' \in BOOLEAN
      BY <1>0, <2>1 DEF CountersInv
    <2> QED
      BY <1>5, <2>1, <2>2, <2>3
  <1>7. ASSUME NEW oneshot \in BOOLEAN, SetTuneMode(oneshot)
        PROVE  ZigzagInv'
    <2>1. /\ Command /\ fp' = [fp EXCEPT !.oneshot = oneshot]
          /\ UNCHANGED <<caps, tuning, prm, hw, stale, asked, dropped, failed>>
      BY <1>7 DEF SetTuneMode, history
    <2>2. fp' \in Fp /\ fp'.state = fp.state /\ fp'.status = fp.status
      BY <1>0, <2>1 DEF Fp
    <2>3. stale' \in BOOLEAN /\ dropped' \in BOOLEAN
      BY <1>0, <2>1 DEF CountersInv
    <2> QED
      BY <1>5, <2>1, <2>2, <2>3
  <1>8. ASSUME NEW restart \in BOOLEAN, Reopen(restart)
        PROVE  ZigzagInv'
    <2>1. /\ Command /\ dropped' = (dropped \/ (restart /\ fp.state \in {Retune, Error}))
          /\ UNCHANGED <<caps, tuning, prm, hw, stale, asked, failed>>
          /\ \/ /\ restart
                /\ fp' = [fp EXCEPT !.oneshot = FALSE, !.state = Idle, !.status = FALSE, !.check_wrapped = FALSE]
             \/ ~restart /\ fp' = [fp EXCEPT !.oneshot = FALSE]
      BY <1>8 DEF Reopen
    <2>2. stale' \in BOOLEAN /\ dropped' \in BOOLEAN
      BY <1>0, <2>1 DEF CountersInv
    <2>3. /\ fp' \in Fp
          /\ restart => fp'.state # Retune
          /\ ~restart => fp'.state = fp.state /\ fp'.status = fp.status
      BY <1>0, <1>1, <2>1 DEF Fp
    <2> QED
      BY <1>5, <2>1, <2>2, <2>3
  <1>9. CASE SignalChange
    <2>1. UNCHANGED <<caps, tuning, fp, prm, hw, commands, asked, dropped, failed>> /\ stale' \in BOOLEAN
      BY <1>0, <1>9 DEF SignalChange, history, CountersInv
    <2> QED
      BY <1>0, <1>5, <2>1 DEF CountersInv
  <1>10. CASE UNCHANGED vars
    <2>1. UNCHANGED <<caps, tuning, fp, prm, hw, stale, commands, asked, dropped, failed>>
      BY <1>10 DEF vars
    <2> QED
      BY <1>0, <1>5, <2>1 DEF CountersInv
  <1> QED
    BY <1>3, <1>4, <1>6, <1>7, <1>8, <1>9, <1>10 DEF Next

-----------------------------------------------------------------------------
(* The fast zigzag: f says where it stands, h what it has tried.           *)

SearchesFast == fp.state \in {{"TUNING_FAST"}, {"ZIGZAG_FAST"}} /\ prm.asked = asked

\* It started after a loss of lock, in the middle of the settings of a step.
Resumed(f) == f.state = {"ZIGZAG_FAST"}

\* The settings of step n.
Plus(n, v) == [freq |-> n * tuning.step_size, inversion |-> IF AutoInversion THEN v ELSE prm.inversion]
Minus(n, v) == [freq |-> -(n * tuning.step_size), inversion |-> IF AutoInversion THEN v ELSE prm.inversion]
OfStep(c, n) == c.freq \in {n * tuning.step_size, -(n * tuning.step_size)}

\* c is one of the first b sub-steps of step n, v being the inversion by then.
Passed(c, n, b, v) ==
  \/ b >= 1 /\ c = Plus(n, v)
  \/ b >= 2 /\ c = Plus(n, Flip(v))
  \/ b >= 3 /\ c = Minus(n, v)
  \/ b >= 4 /\ c = Minus(n, Flip(v))

\* The steps that have been left behind since the start.
Behind(f, n) ==
  IF f.started_auto_step <= f.auto_step
    THEN f.started_auto_step <= n /\ n < f.auto_step
    ELSE n < f.auto_step \/ n >= f.started_auto_step

\* The search did or will try step n from its first setting on.
Whole(f, n) == ~Resumed(f) \/ n # f.started_auto_step

StandInv(f, h) ==
  /\ ~Resumed(f) => f.started_auto_step = 0
  /\ ~f.check_wrapped => /\ h = NewSearch /\ f.started_auto_step = f.auto_step
                         /\ ~Resumed(f) => f.auto_sub_step = 0
  /\ f.check_wrapped => f.auto_sub_step >= 1 /\ InRange(f.auto_step) = f.auto_step

\* Nothing was tried twice, and nothing of what is to come.
NewInv(f, h) ==
  tuning.step_size > 0 /\ InRange(f.started_auto_step) = f.started_auto_step =>
    /\ h.tries <= Cardinality(h.tried)
    /\ \A c \in h.tried : \/ Passed(c, f.auto_step, f.auto_sub_step, f.inversion)
                          \/ \E n \in 0 .. UIntMod - 1 : Behind(f, n) /\ OfStep(c, n)

\* Nothing was left out on the way.
AllInv(f, h) ==
  f.check_wrapped /\ (~Resumed(f) \/ tuning.step_size > 0) =>
    /\ \A n \in 0 .. UIntMod - 1 : Behind(f, n) /\ Whole(f, n) =>
         \A c \in Candidates : OfStep(c, n) => c \in h.tried
    /\ Whole(f, f.auto_step) =>
         \A c \in Candidates : Passed(c, f.auto_step, f.auto_sub_step, f.inversion) => c \in h.tried

FastInv(f, h) == StandInv(f, h) /\ h.tried \subseteq Candidates /\ NewInv(f, h) /\ AllInv(f, h)

SearchInv == search.tries \in Nat /\ (SearchesFast => FastInv(fp, search))

\* Steps times step_size.
LEMMA Times ==
  ASSUME NEW a \in Nat, NEW b \in Nat, NEW c \in Nat
  PROVE  /\ a * c \in Nat /\ 0 * c = 0
         /\ a <= b => a * c <= b * c
         /\ c > 0 => a <= a * c
         /\ c > 0 /\ a * c = b * c => a = b
  OBVIOUS

\* The next setting: of the same step, or the first of the next step.
Stays(f, y) ==
  /\ y.step = InRange(f.auto_step)
  /\ Ready(y.step, y.sub)
  /\ y.step = f.auto_step => /\ y.sub >= f.auto_sub_step
                             /\ \A k \in 0 .. 3 : f.auto_sub_step <= k /\ k < y.sub => ~Ready(y.step, k)
  /\ y.step # f.auto_step => y.sub = 0

Moves(f, y) ==
  /\ InRange(f.auto_step) = f.auto_step
  /\ \A k \in 0 .. 3 : f.auto_sub_step <= k => ~Ready(f.auto_step, k)
  /\ y.step = InRange((f.auto_step + 1) % UIntMod) /\ y.sub = 0

\* What NextSetting chooses.
LEMMA NextCases ==
  ASSUME TypeOK, NEW f \in Fp
  PROVE  LET y == NextSetting(f) IN
         /\ Stays(f, y) \/ Moves(f, y)
         /\ y.drift = IF y.sub \in {2, 3} THEN -(y.step * tuning.step_size) ELSE y.step * tuning.step_size
         /\ y.inversion = IF y.sub \in {1, 3} THEN Flip(f.inversion) ELSE f.inversion
  <1> DEFINE step == InRange(f.auto_step)
             from == IF step = f.auto_step THEN f.auto_sub_step ELSE 0
             subs == {k \in from .. 3 : Ready(step, k)}
             least == CHOOSE k \in subs : \A j \in subs : k <= j
             y == NextSetting(f)
  <1>1. f.auto_step \in 0 .. UIntMod - 1 /\ f.auto_sub_step \in 0 .. 4 /\ from \in 0 .. 4
    BY DEF Fp
  <1>2. /\ y.drift = IF y.sub \in {2, 3} THEN -(y.step * tuning.step_size) ELSE y.step * tuning.step_size
        /\ y.inversion = IF y.sub \in {1, 3} THEN Flip(f.inversion) ELSE f.inversion
    BY DEF NextSetting
  <1>3. y.sub \in 0 .. 3
    BY SettingFacts
  <1>4. CASE subs # {}
    <2>1. y.step = step /\ y.sub = least
      BY <1>4 DEF NextSetting
    <2>2. subs \subseteq {0, 1, 2, 3}
      BY <1>1
    <2>3. \E k \in subs : \A j \in subs : k <= j
      <3> HIDE DEF subs
      <3> QED
        BY <1>4, <2>2, FirstOf
    <2>4. least \in subs /\ \A j \in subs : least <= j
      <3> HIDE DEF subs
      <3> QED
        BY <2>3
    <2> HIDE DEF least
    <2>5. from <= y.sub /\ Ready(step, y.sub) /\ \A k \in 0 .. 3 : from <= k /\ k < y.sub => ~Ready(step, k)
      BY <1>1, <1>3, <2>1, <2>4
    <2>6. step # f.auto_step => y.sub = 0
      <3>1. Ready(step, 0)
        BY DEF Ready
      <3> QED
        BY <1>3, <2>5, <3>1
    <2>7. Stays(f, y)
      BY <2>1, <2>5, <2>6 DEF Stays
    <2> QED
      BY <1>2, <2>7
  <1>5. CASE subs = {}
    <2>1. y.step = InRange((step + 1) % UIntMod) /\ y.sub = 0
      BY <1>5 DEF NextSetting
    <2>2. Ready(step, 0)
      BY DEF Ready
    <2>3. from # 0
      BY <1>5, <2>2
    <2>4. step = f.auto_step
      BY <2>3
    <2>5. \A k \in 0 .. 3 : f.auto_sub_step <= k => ~Ready(f.auto_step, k)
      BY <1>1, <1>5, <2>4
    <2>6. Moves(f, y)
      BY <2>1, <2>4, <2>5 DEF Moves
    <2> QED
      BY <1>2, <2>6
  <1> QED
    BY <1>4, <1>5

\* From the last setting of a step: up one, or back to 0 when there is no further step.
LEMMA StepUp ==
  ASSUME TypeOK, NEW s \in 0 .. UIntMod - 1
  PROVE  LET m == InRange((s + 1) % UIntMod) IN
         \/ m = s + 1 /\ s + 1 < UIntMod
         \/ m = 0 /\ \A n \in 0 .. UIntMod - 1 : n > s => n * tuning.step_size > tuning.max_drift
  <1>0. /\ tuning.step_size \in Nat /\ tuning.max_drift \in Nat /\ UIntMod \in Nat /\ UIntMod > 0
        /\ 0 * tuning.step_size = 0 /\ s \in Nat
    BY TuningFacts, UIntAssumption
  <1>1. CASE s + 1 = UIntMod
    <2>1. (s + 1) % UIntMod = 0
      BY <1>0, <1>1
    <2>2. InRange((s + 1) % UIntMod) = 0
      BY <1>0, <2>1 DEF InRange
    <2>3. \A n \in 0 .. UIntMod - 1 : ~(n > s)
      BY <1>0, <1>1
    <2> QED
      BY <2>2, <2>3
  <1>2. CASE s + 1 # UIntMod
    <2>1. s + 1 < UIntMod /\ (s + 1) % UIntMod = s + 1 /\ s + 1 \in Nat
      BY <1>0, <1>2
    <2>2. CASE (s + 1) * tuning.step_size > tuning.max_drift
      <3>1. InRange((s + 1) % UIntMod) = 0
        BY <2>1, <2>2 DEF InRange
      <3>2. ASSUME NEW n \in 0 .. UIntMod - 1, n > s
            PROVE  n * tuning.step_size > tuning.max_drift
        <4>1. n \in Nat /\ s + 1 <= n
          BY <1>0, <3>2
        <4>2. (s + 1) * tuning.step_size <= n * tuning.step_size
          BY <1>0, <2>1, <4>1, Times
        <4>3. (s + 1) * tuning.step_size \in Nat /\ n * tuning.step_size \in Nat
          BY <1>0, <2>1, <4>1, Times
        <4> QED
          BY <1>0, <2>2, <4>2, <4>3
      <3> QED
        BY <3>1, <3>2
    <2>3. CASE ~((s + 1) * tuning.step_size > tuning.max_drift)
      <3>1. InRange((s + 1) % UIntMod) = s + 1
        BY <2>1, <2>3 DEF InRange
      <3> QED
        BY <2>1, <3>1
    <2> QED
      BY <2>2, <2>3
  <1> QED
    BY <1>1, <1>2

\* A setting of one step is of no other.
LEMMA OneStep ==
  ASSUME TypeOK, tuning.step_size > 0, NEW n \in Nat, NEW m \in Nat, NEW c, OfStep(c, n), OfStep(c, m)
  PROVE  n = m
  <1>1. tuning.step_size \in Nat
    BY TuningFacts
  <1>2. n * tuning.step_size \in Nat /\ m * tuning.step_size \in Nat
    BY <1>1, Times
  <1>3. n * tuning.step_size = m * tuning.step_size
    <2> DEFINE a == n * tuning.step_size
               b == m * tuning.step_size
    <2>1. c.freq \in {a, -a} /\ c.freq \in {b, -b} /\ a \in Nat /\ b \in Nat
      BY <1>2 DEF OfStep
    <2> HIDE DEF a, b
    <2>2. a = b
      BY <2>1
    <2> QED
      BY <2>2 DEF a, b
  <1> QED
    BY <1>1, <1>3, Times

\* What has been passed belongs to the step.
LEMMA PassedOfStep ==
  ASSUME NEW c, NEW n, NEW b, NEW v, Passed(c, n, b, v)
  PROVE  OfStep(c, n)
  BY DEF Passed, OfStep, Plus, Minus

\* A candidate belongs to a step that is in range.
LEMMA CandidateFacts ==
  ASSUME TypeOK, NEW c \in Candidates
  PROVE  /\ c = [freq |-> c.freq, inversion |-> c.inversion]
         /\ c.inversion \in (IF AutoInversion THEN Inversions ELSE {prm.inversion})
         /\ \A n \in Nat : OfStep(c, n) => n * tuning.step_size <= tuning.max_drift
         /\ \E n \in 0 .. UIntMod - 1 : OfStep(c, n) /\ n * tuning.step_size <= tuning.max_drift
  <1> DEFINE ss == tuning.step_size
             md == tuning.max_drift
  <1>0. /\ ss \in Nat /\ md \in Nat /\ UIntMod \in Nat /\ UIntMod > 0
        /\ ss > 0 => UIntMod * ss > md
    BY TuningFacts, TuningAssumption, UIntAssumption DEF TypeOK
  <1>1. /\ c = [freq |-> c.freq, inversion |-> c.inversion]
        /\ c.inversion \in (IF AutoInversion THEN Inversions ELSE {prm.inversion})
    BY DEF Candidates
  <1>2. PICK k \in -md .. md : c.freq = k * ss /\ -md <= c.freq /\ c.freq <= md
    BY DEF Candidates
  <1>3. \A n \in Nat : OfStep(c, n) => n * ss <= md
    <2>1. \A n \in Nat : n * ss \in Nat
      BY <1>0, Times
    <2>2. \A n \in Nat : OfStep(c, n) => c.freq = n * ss \/ c.freq = -(n * ss)
      BY DEF OfStep
    <2> QED
      BY <1>0, <1>2, <2>1, <2>2
  <1>4. \E n \in 0 .. UIntMod - 1 : OfStep(c, n) /\ n * ss <= md
    <2>1. CASE ss = 0
      <3>1. c.freq = 0 * ss /\ 0 * ss = 0 /\ 0 \in 0 .. UIntMod - 1
        BY <1>0, <1>2, <2>1
      <3> QED
        BY <1>0, <3>1 DEF OfStep
    <2>2. CASE ss > 0
      <3>1. PICK n \in Nat : k = n \/ k = -n
        BY <1>0, <1>2
      <3>2. c.freq = n * ss \/ c.freq = -(n * ss)
        BY <1>0, <1>2, <3>1
      <3>3. OfStep(c, n)
        BY <3>2 DEF OfStep
      <3>4. n * ss <= md
        BY <1>3, <3>3
      <3>5. n < UIntMod
        <4>1. UIntMod <= n => UIntMod * ss <= n * ss
          BY <1>0, Times
        <4>2. n * ss \in Nat /\ UIntMod * ss \in Nat
          BY <1>0, Times
        <4> HIDE DEF ss, md
        <4> QED
          BY <1>0, <2>2, <3>4, <4>1, <4>2
      <3> QED
        BY <1>0, <3>3, <3>4, <3>5
    <2> QED
      BY <1>0, <2>1, <2>2
  <1> QED
    BY <1>1, <1>3, <1>4

\* There are finitely many settings to try.
LEMMA CandidatesFinite ==
  ASSUME TypeOK
  PROVE  IsFiniteSet(Candidates)
  <1> DEFINE A == -tuning.max_drift .. tuning.max_drift
             B == Inversions \cup {"auto"}
             T == [freq : A, inversion : B]
             g == [p \in A \X B |-> [freq |-> p[1], inversion |-> p[2]]]
  <1>1. tuning.max_drift \in Int /\ -tuning.max_drift \in Int /\ tuning.step_size \in Nat
    BY TuningFacts
  <1>2. IsFiniteSet(A)
    BY <1>1, FS_Interval
  <1>3. IsFiniteSet(B)
    <2>1. IsFiniteSet({}) /\ B = (({} \cup {"off"}) \cup {"on"}) \cup {"auto"}
      BY FS_EmptySet DEF Inversions
    <2>2. IsFiniteSet({} \cup {"off"})
      BY <2>1, FS_AddElement
    <2>3. IsFiniteSet(({} \cup {"off"}) \cup {"on"})
      BY <2>2, FS_AddElement
    <2> HIDE DEF B
    <2> QED
      BY <2>1, <2>3, FS_AddElement
  <1>4. IsFiniteSet(A \X B)
    BY <1>2, <1>3, FS_Product
  <1>5. g \in Surjection(A \X B, T)
    <2>1. g \in [A \X B -> T]
      OBVIOUS
    <2>2. ASSUME NEW t \in T
          PROVE  \E p \in A \X B : g[p] = t
      <3>1. t.freq \in A /\ t.inversion \in B /\ t = [freq |-> t.freq, inversion |-> t.inversion]
        OBVIOUS
      <3> HIDE DEF A, B
      <3>2. <<t.freq, t.inversion>> \in A \X B
        BY <3>1
      <3>3. g[<<t.freq, t.inversion>>] = t
        BY <3>1, <3>2
      <3> QED
        BY <3>2, <3>3
    <2> HIDE DEF g, A, B
    <2> QED
      BY <2>1, <2>2 DEF Surjection
  <1>6. IsFiniteSet(T)
    <2> HIDE DEF g, T, A, B
    <2> QED
      BY <1>4, <1>5, FS_Surjection
  <1>7. Candidates \subseteq T
    <2>1. prm.inversion \in B
      BY TuningFacts DEF Params
    <2>2. ASSUME NEW c \in Candidates
          PROVE  c \in T
      <3>1. /\ c = [freq |-> c.freq, inversion |-> c.inversion]
            /\ c.inversion \in (IF AutoInversion THEN Inversions ELSE {prm.inversion})
        BY CandidateFacts
      <3>2. c.freq \in A
        BY <1>1 DEF Candidates
      <3>3. c.inversion \in B
        BY <2>1, <3>1
      <3> HIDE DEF A, B
      <3> QED
        BY <3>1, <3>2, <3>3
    <2> QED
      BY <2>2
  <1> HIDE DEF T
  <1> QED
    BY <1>6, <1>7, FS_Subset

\* The next setting in terms of its step; it is a candidate.
LEMMA SettingShape ==
  ASSUME TypeOK, NEW f \in Fp
  PROVE  LET y == NextSetting(f) IN
         /\ y.sub \in {0, 1} => Setting(f) = Plus(y.step, y.inversion)
         /\ y.sub \in {2, 3} => Setting(f) = Minus(y.step, y.inversion)
         /\ OfStep(Setting(f), y.step)
         /\ Setting(f) \in Candidates
  <1> DEFINE y == NextSetting(f)
             ss == tuning.step_size
             md == tuning.max_drift
             q == Setting(f)
  <1>0. ss \in Nat /\ md \in Nat /\ prm.inversion \in Inversions \cup {"auto"} /\ UIntMod \in Nat
    BY TuningFacts, UIntAssumption DEF Params
  <1>1. /\ y.step \in 0 .. UIntMod - 1 /\ y.sub \in 0 .. 3 /\ y.inversion \in Inversions
        /\ y.drift \in Int /\ -md <= y.drift /\ y.drift <= md
    BY SettingFacts
  <1>2. y.drift = IF y.sub \in {2, 3} THEN -(y.step * ss) ELSE y.step * ss
    BY NextCases
  <1>3. q = [freq |-> y.drift, inversion |-> IF AutoInversion THEN y.inversion ELSE prm.inversion]
    BY DEF Setting
  <1> HIDE DEF y, q
  <1>4. /\ y.sub \in {0, 1} => q = Plus(y.step, y.inversion)
        /\ y.sub \in {2, 3} => q = Minus(y.step, y.inversion)
    BY <1>2, <1>3 DEF Plus, Minus
  <1>5. OfStep(q, y.step)
    BY <1>2, <1>3 DEF OfStep
  <1>6. q \in Candidates
    <2>1. \E k \in -md .. md : y.drift = k * ss
      <3>0. y.step \in Nat /\ y.step * ss \in Nat
        BY <1>0, <1>1, Times
      <3>1. CASE ss = 0
        BY <1>0, <1>1, <1>2, <3>1
      <3>2. CASE ss > 0
        <4>1. y.step <= y.step * ss
          BY <1>0, <3>0, <3>2, Times
        <4>2. y.step * ss <= md
          BY <1>0, <1>1, <1>2, <3>0
        <4>3. y.step \in -md .. md /\ -y.step \in -md .. md
          BY <1>0, <3>0, <4>1, <4>2
        <4>4. (-y.step) * ss = -(y.step * ss)
          BY <1>0, <3>0
        <4> QED
          BY <1>2, <4>3, <4>4
      <3> QED
        BY <1>0, <3>1, <3>2
    <2>2. (IF AutoInversion THEN y.inversion ELSE prm.inversion) \in (IF AutoInversion THEN Inversions ELSE {prm.inversion})
      BY <1>1
    <2>3. y.drift \in {d \in {k * ss : k \in -md .. md} : -md <= d /\ d <= md}
      BY <1>1, <2>1
    <2> QED
      BY <1>3, <2>2, <2>3 DEF Candidates
  <1> QED
    BY <1>4, <1>5, <1>6 DEF q, y

\* A tune at the same step: one more setting has been passed.
LEMMA StayPassed ==
  ASSUME TypeOK, NEW f \in Fp, NextSetting(f).step = f.auto_step, Stays(f, NextSetting(f)), NEW c
  PROVE  LET y == NextSetting(f) IN
         Passed(c, y.step, y.sub + 1, y.inversion)
           <=> Passed(c, f.auto_step, f.auto_sub_step, f.inversion) \/ c = Setting(f)
  <1> DEFINE y == NextSetting(f)
             n == f.auto_step
             b == f.auto_sub_step
             v == f.inversion
  <1>1. b \in 0 .. 4 /\ v \in Inversions
    BY DEF Fp
  <1>2. /\ y.sub \in 0 .. 3 /\ y.step = n
        /\ y.sub >= b /\ Ready(n, y.sub) /\ \A k \in 0 .. 3 : b <= k /\ k < y.sub => ~Ready(n, k)
    BY SettingFacts DEF Stays
  <1>3. y.inversion = IF y.sub \in {1, 3} THEN Flip(v) ELSE v
    BY NextCases
  <1>4. /\ y.sub \in {0, 1} => Setting(f) = Plus(n, y.inversion)
        /\ y.sub \in {2, 3} => Setting(f) = Minus(n, y.inversion)
    BY <1>2, SettingShape
  <1>5. Flip(Flip(v)) = v
    BY <1>1 DEF Flip, Inversions
  <1>6. ~AutoInversion => Plus(n, v) = Plus(n, Flip(v)) /\ Minus(n, v) = Minus(n, Flip(v))
    BY DEF Plus, Minus
  <1> HIDE DEF y, n, b, v
  <1>7. CASE y.sub = 0
    <2>1. b = 0
      BY <1>1, <1>2, <1>7
    <2> QED
      BY <1>2, <1>3, <1>4, <1>7, <2>1 DEF Passed, n, b, v, y
  <1>8. CASE y.sub = 1
    <2>1. b = 1
      <3>1. Ready(n, 0)
        BY DEF Ready
      <3> QED
        BY <1>1, <1>2, <1>8, <3>1
    <2>2. y.inversion = Flip(v) /\ Setting(f) = Plus(n, Flip(v))
      BY <1>3, <1>4, <1>8
    <2>3. Passed(c, n, 2, Flip(v)) <=> Passed(c, n, 1, v) \/ c = Plus(n, Flip(v))
      BY <1>5 DEF Passed
    <2> QED
      BY <1>2, <1>8, <2>1, <2>2, <2>3 DEF n, b, v, y
  <1>9. CASE y.sub = 2
    <2>1. y.inversion = v /\ Setting(f) = Minus(n, v)
      BY <1>3, <1>4, <1>9
    <2>2. b = 2 \/ (b = 1 /\ ~AutoInversion)
      <3>1. Ready(n, 0) /\ (AutoInversion => Ready(n, 1))
        BY DEF Ready
      <3> QED
        BY <1>1, <1>2, <1>9, <3>1
    <2>3. Passed(c, n, 3, v) <=> Passed(c, n, b, v) \/ c = Minus(n, v)
      BY <1>6, <2>2 DEF Passed
    <2> QED
      BY <1>2, <1>9, <2>1, <2>3 DEF n, b, v, y
  <1>10. CASE y.sub = 3
    <2>1. y.inversion = Flip(v) /\ Setting(f) = Minus(n, Flip(v))
      BY <1>3, <1>4, <1>10
    <2>2. b = 3
      <3>1. Ready(n, 0) /\ Ready(n, 2) /\ AutoInversion
        BY <1>2, <1>10 DEF Ready
      <3>2. Ready(n, 1)
        BY <3>1 DEF Ready
      <3> QED
        BY <1>1, <1>2, <1>10, <3>1, <3>2
    <2>3. Passed(c, n, 4, Flip(v)) <=> Passed(c, n, 3, v) \/ c = Minus(n, Flip(v))
      BY <1>5 DEF Passed
    <2> QED
      BY <1>2, <1>10, <2>1, <2>2, <2>3 DEF n, b, v, y
  <1> QED
    BY <1>2, <1>7, <1>8, <1>9, <1>10

\* It has not been passed before.
LEMMA StayNew ==
  ASSUME TypeOK, NEW f \in Fp, NextSetting(f).step = f.auto_step, Stays(f, NextSetting(f)), f.auto_sub_step >= 1
  PROVE  ~Passed(Setting(f), f.auto_step, f.auto_sub_step, f.inversion)
  <1> DEFINE y == NextSetting(f)
             n == f.auto_step
             b == f.auto_sub_step
             v == f.inversion
             a == n * tuning.step_size
  <1>1. b \in 1 .. 4 /\ v \in Inversions
    BY DEF Fp
  <1>2. /\ y.sub \in 0 .. 3 /\ y.step = n
        /\ y.sub >= b /\ Ready(n, y.sub) /\ \A k \in 0 .. 3 : b <= k /\ k < y.sub => ~Ready(n, k)
    BY SettingFacts DEF Stays
  <1>3. y.inversion = IF y.sub \in {1, 3} THEN Flip(v) ELSE v
    BY NextCases
  <1>4. /\ y.sub \in {0, 1} => Setting(f) = Plus(n, y.inversion)
        /\ y.sub \in {2, 3} => Setting(f) = Minus(n, y.inversion)
    BY <1>2, SettingShape
  <1>5. Flip(v) # v
    BY <1>1 DEF Flip, Inversions
  <1>6. AutoInversion => Plus(n, v) # Plus(n, Flip(v)) /\ Minus(n, v) # Minus(n, Flip(v))
    BY <1>5 DEF Plus, Minus
  <1>7. a # 0 => \A u, w : Plus(n, u) # Minus(n, w)
    <2>1. a \in Int
      BY TuningFacts, Times, UIntAssumption DEF Fp
    <2>2. a # 0 => a # -a
      BY <2>1
    <2>3. \A u, w : Plus(n, u).freq = a /\ Minus(n, w).freq = -a
      BY DEF Plus, Minus
    <2> HIDE DEF a
    <2> QED
      BY <2>2, <2>3
  <1> HIDE DEF y, n, b, v, a
  <1>8. CASE y.sub = 0
    BY <1>1, <1>2, <1>8
  <1>9. CASE y.sub = 1
    <2>1. b = 1 /\ AutoInversion
      BY <1>1, <1>2, <1>9 DEF Ready
    <2>2. Setting(f) = Plus(n, Flip(v))
      BY <1>3, <1>4, <1>9
    <2>3. ~Passed(Plus(n, Flip(v)), n, 1, v)
      BY <1>6, <2>1 DEF Passed
    <2> QED
      BY <2>1, <2>2, <2>3 DEF n, b, v
  <1>10. CASE y.sub = 2
    <2>1. b \in {1, 2} /\ a # 0
      BY <1>1, <1>2, <1>10 DEF Ready, a
    <2>2. Setting(f) = Minus(n, v)
      BY <1>3, <1>4, <1>10
    <2>3. ~Passed(Minus(n, v), n, b, v)
      BY <1>7, <2>1 DEF Passed
    <2> QED
      BY <2>2, <2>3 DEF n, b, v
  <1>11. CASE y.sub = 3
    <2>1. AutoInversion /\ a # 0
      BY <1>2, <1>11 DEF Ready, a
    <2>2. Setting(f) = Minus(n, Flip(v))
      BY <1>3, <1>4, <1>11
    <2>3. b = 3
      <3>1. Ready(n, 1) /\ Ready(n, 2)
        BY <2>1 DEF Ready, a
      <3> QED
        BY <1>1, <1>2, <1>11, <3>1
    <2>4. ~Passed(Minus(n, Flip(v)), n, 3, v)
      BY <1>6, <1>7, <2>1 DEF Passed
    <2> QED
      BY <2>2, <2>3, <2>4 DEF n, b, v
  <1> QED
    BY <1>2, <1>8, <1>9, <1>10, <1>11

\* When no sub-step is left, every candidate of the step has been passed.
LEMMA AllPassed ==
  ASSUME TypeOK, NEW f \in Fp, f.auto_sub_step >= 1,
         \A k \in 0 .. 3 : f.auto_sub_step <= k => ~Ready(f.auto_step, k),
         NEW c \in Candidates, OfStep(c, f.auto_step)
  PROVE  Passed(c, f.auto_step, f.auto_sub_step, f.inversion)
  <1> DEFINE n == f.auto_step
             b == f.auto_sub_step
             v == f.inversion
             a == n * tuning.step_size
  <1>1. b \in 1 .. 4 /\ v \in Inversions
    BY DEF Fp
  <1>2. a \in Int
    BY TuningFacts, Times, UIntAssumption DEF Fp
  <1>3. /\ c = [freq |-> c.freq, inversion |-> c.inversion]
        /\ c.inversion \in (IF AutoInversion THEN Inversions ELSE {prm.inversion})
        /\ c.freq \in {a, -a}
    BY CandidateFacts DEF OfStep
  <1>4. AutoInversion => c.inversion \in {v, Flip(v)}
    BY <1>1, <1>3 DEF Flip, Inversions
  <1>5. \A u : /\ Plus(n, u) = [freq |-> a, inversion |-> IF AutoInversion THEN u ELSE prm.inversion]
               /\ Minus(n, u) = [freq |-> -a, inversion |-> IF AutoInversion THEN u ELSE prm.inversion]
    BY DEF Plus, Minus
  <1>6. \A k \in 0 .. 3 : b <= k => ~Ready(n, k)
    OBVIOUS
  <1> HIDE DEF n, b, v
  <1>7. /\ AutoInversion => b >= 2
        /\ a # 0 => b >= 3
        /\ a # 0 /\ AutoInversion => b >= 4
    <2>1. /\ AutoInversion => Ready(n, 1)
          /\ a # 0 => Ready(n, 2)
          /\ a # 0 /\ AutoInversion => Ready(n, 3)
      BY DEF Ready
    <2> HIDE DEF a
    <2> QED
      BY <1>1, <1>6, <2>1
  <1> HIDE DEF a
  <1>8. \/ c = Plus(n, v) \/ (AutoInversion /\ c = Plus(n, Flip(v)))
        \/ (a # 0 /\ c = Minus(n, v)) \/ (a # 0 /\ AutoInversion /\ c = Minus(n, Flip(v)))
    <2>1. CASE c.freq = a
      BY <1>3, <1>4, <1>5, <2>1
    <2>2. CASE c.freq # a
      <3>1. a # 0 /\ c.freq = -a
        BY <1>2, <1>3, <2>2
      <3> QED
        BY <1>3, <1>4, <1>5, <3>1
    <2> QED
      BY <2>1, <2>2
  <1>9. Passed(c, n, b, v)
    BY <1>1, <1>7, <1>8 DEF Passed
  <1> QED
    BY <1>9 DEF n, b, v

\* Where the search stands after a tune.
Advances(f, g) ==
  LET y == NextSetting(f) IN
  /\ g.auto_step = y.step /\ g.auto_sub_step = y.sub + 1 /\ g.inversion = y.inversion
  /\ g.started_auto_step = f.started_auto_step
  /\ g.check_wrapped /\ (Resumed(g) <=> Resumed(f))

\* On to a step that is not the first one: the step left is behind, and it is the only
\* one more that is, but for those that are out of range.
LEMMA MoveOn ==
  ASSUME TypeOK, NEW f \in Fp, NEW g \in Fp, g.started_auto_step = f.started_auto_step,
         g.auto_step = InRange((f.auto_step + 1) % UIntMod), g.auto_step # f.started_auto_step
  PROVE  /\ InRange(f.started_auto_step) = f.started_auto_step =>
              /\ ~Behind(f, g.auto_step) /\ g.auto_step # f.auto_step
              /\ Behind(g, f.auto_step)
              /\ \A n \in 0 .. UIntMod - 1 : Behind(f, n) => Behind(g, n)
         /\ \A n \in 0 .. UIntMod - 1 :
              Behind(g, n) => Behind(f, n) \/ n = f.auto_step \/ n * tuning.step_size > tuning.max_drift
  <1> DEFINE s == f.auto_step
             m == g.auto_step
             x == f.started_auto_step
             ss == tuning.step_size
             md == tuning.max_drift
  <1>0. /\ s \in 0 .. UIntMod - 1 /\ m \in 0 .. UIntMod - 1 /\ x \in 0 .. UIntMod - 1 /\ UIntMod \in Nat
        /\ m # x /\ g.started_auto_step = x
    BY UIntAssumption DEF Fp
  <1>1. \/ m = s + 1 /\ s + 1 < UIntMod
        \/ m = 0 /\ \A n \in 0 .. UIntMod - 1 : n > s => n * ss > md
    BY StepUp, <1>0
  <1>2. InRange(x) = x => x = 0 \/ ~(x * ss > md)
    BY DEF InRange
  <1>3. \A n : /\ Behind(f, n) <=> IF x <= s THEN x <= n /\ n < s ELSE n < s \/ n >= x
               /\ Behind(g, n) <=> IF x <= m THEN x <= n /\ n < m ELSE n < m \/ n >= x
    BY <1>0 DEF Behind
  <1> HIDE DEF s, m, x
  <1>4. CASE m = s + 1
    BY <1>0, <1>3, <1>4 DEF s, m, x
  <1>5. CASE m = 0 /\ \A n \in 0 .. UIntMod - 1 : n > s => n * ss > md
    <2>1. x > 0
      BY <1>0, <1>5
    <2>2. InRange(x) = x => x <= s
      BY <1>0, <1>2, <1>5, <2>1
    <2>3. InRange(x) = x => ~Behind(f, m) /\ m # s /\ Behind(g, s)
      BY <1>0, <1>3, <1>5, <2>1, <2>2
    <2>4. InRange(x) = x => \A n \in 0 .. UIntMod - 1 : Behind(f, n) => Behind(g, n)
      BY <1>0, <1>3, <1>5, <2>1, <2>2
    <2>5. \A n \in 0 .. UIntMod - 1 : Behind(g, n) => Behind(f, n) \/ n = s \/ n * ss > md
      BY <1>0, <1>3, <1>5, <2>1
    <2> QED
      BY <2>3, <2>4, <2>5 DEF s, m, x
  <1> QED
    BY <1>1, <1>4, <1>5

\* The setting is new, and what has been tried is behind or at the step reached.
LEMMA TuneNew ==
  ASSUME TypeOK, NEW f \in Fp, NEW g \in Fp, NEW h, Advances(f, g), ~Wrapped(f),
         StandInv(f, h), NewInv(f, h), tuning.step_size > 0, InRange(f.started_auto_step) = f.started_auto_step
  PROVE  /\ Setting(f) \notin h.tried
         /\ \A c \in h.tried \cup {Setting(f)} :
              \/ Passed(c, g.auto_step, g.auto_sub_step, g.inversion)
              \/ \E n \in 0 .. UIntMod - 1 : Behind(g, n) /\ OfStep(c, n)
  <1> DEFINE y == NextSetting(f)
             q == Setting(f)
             s == f.auto_step
  <1>0. /\ s \in 0 .. UIntMod - 1 /\ s \in Nat /\ f.auto_sub_step \in 0 .. 4
        /\ f.started_auto_step \in 0 .. UIntMod - 1 /\ UIntMod \in Nat
    BY UIntAssumption DEF Fp
  <1>1. /\ g.auto_step = y.step /\ g.auto_sub_step = y.sub + 1 /\ g.inversion = y.inversion
        /\ g.started_auto_step = f.started_auto_step
    BY DEF Advances
  <1>2. Stays(f, y) \/ Moves(f, y)
    BY NextCases
  <1>3. y.step \in 0 .. UIntMod - 1 /\ y.step \in Nat /\ y.sub \in 0 .. 3
    BY SettingFacts, UIntAssumption
  <1>4. OfStep(q, y.step)
    BY SettingShape
  <1>5. y.sub = 0 => Passed(q, y.step, y.sub + 1, y.inversion)
    <2>1. y.sub = 0 => q = Plus(y.step, y.inversion)
      BY SettingShape
    <2> HIDE DEF y, q
    <2> QED
      BY <2>1 DEF Passed
  <1>6. InRange(s) = s
    BY DEF StandInv
  <1>7. f.check_wrapped => \A c \in h.tried : \/ Passed(c, s, f.auto_sub_step, f.inversion)
                                               \/ \E n \in 0 .. UIntMod - 1 : Behind(f, n) /\ OfStep(c, n)
    BY DEF NewInv
  <1>8. ~f.check_wrapped => h.tried = {}
    BY DEF StandInv, NewSearch
  <1>9. f.check_wrapped => f.auto_sub_step >= 1
    BY DEF StandInv
  <1>10. \A c, n : n \in 0 .. UIntMod - 1 /\ OfStep(c, n) /\ OfStep(c, y.step) => n = y.step
    BY <1>0, <1>3, OneStep
  <1>11. CASE Stays(f, y)
    <2>1. y.step = s
      BY <1>6, <1>11 DEF Stays
    <2>2. \A c : Passed(c, y.step, y.sub + 1, y.inversion) <=> Passed(c, s, f.auto_sub_step, f.inversion) \/ c = q
      BY <1>11, <2>1, StayPassed
    <2>3. f.check_wrapped => ~Passed(q, s, f.auto_sub_step, f.inversion)
      BY <1>9, <1>11, <2>1, StayNew
    <2>4. ~Behind(f, s)
      BY <1>0 DEF Behind
    <2>5. \A n : Behind(g, n) <=> Behind(f, n)
      BY <1>1, <2>1 DEF Behind
    <2> HIDE DEF y, q, s
    <2>6. q \notin h.tried
      BY <1>4, <1>7, <1>8, <1>10, <2>1, <2>3, <2>4
    <2>7. ASSUME NEW c \in h.tried \cup {q}
          PROVE  \/ Passed(c, y.step, y.sub + 1, y.inversion)
                 \/ \E n \in 0 .. UIntMod - 1 : Behind(g, n) /\ OfStep(c, n)
      BY <1>7, <1>8, <2>2, <2>5
    <2> QED
      BY <1>1, <2>6, <2>7 DEF q
  <1>12. CASE Moves(f, y) /\ ~f.check_wrapped
    <2>1. y.sub = 0
      BY <1>12 DEF Moves
    <2> HIDE DEF y, q, s
    <2> QED
      BY <1>1, <1>5, <1>8, <1>12, <2>1 DEF q
  <1>13. CASE Moves(f, y) /\ f.check_wrapped
    <2>1. y.step = InRange((s + 1) % UIntMod) /\ y.sub = 0
      BY <1>13 DEF Moves
    <2>2. y.step # f.started_auto_step
      BY <1>13, <2>1 DEF Wrapped
    <2>3. /\ ~Behind(f, y.step) /\ y.step # s /\ Behind(g, s)
          /\ \A n \in 0 .. UIntMod - 1 : Behind(f, n) => Behind(g, n)
      BY <1>1, <2>1, <2>2, MoveOn
    <2>4. \A c : Passed(c, s, f.auto_sub_step, f.inversion) => OfStep(c, s)
      BY PassedOfStep
    <2> HIDE DEF y, q, s
    <2>5. q \notin h.tried
      BY <1>0, <1>4, <1>7, <1>10, <1>13, <2>3, <2>4
    <2>6. \A c \in h.tried : \E n \in 0 .. UIntMod - 1 : Behind(g, n) /\ OfStep(c, n)
      BY <1>0, <1>7, <1>13, <2>3, <2>4
    <2> QED
      BY <1>1, <1>5, <2>1, <2>5, <2>6 DEF q
  <1> QED
    BY <1>2, <1>11, <1>12, <1>13

\* A step that is out of range has no candidates.
LEMMA OutOfRange ==
  ASSUME TypeOK, NEW c \in Candidates, NEW n \in Nat, OfStep(c, n)
  PROVE  ~(n * tuning.step_size > tuning.max_drift)
  <1>1. n * tuning.step_size <= tuning.max_drift /\ tuning.max_drift \in Nat /\ n * tuning.step_size \in Nat
    BY CandidateFacts, TuningFacts, Times
  <1> HIDE DEF OfStep
  <1> QED
    BY <1>1

\* All of a step that was tried from its first setting on has been tried when it is left.
LEMMA StepDone ==
  ASSUME TypeOK, NEW f \in Fp, NEW h, StandInv(f, h), AllInv(f, h), f.check_wrapped,
         ~Resumed(f) \/ tuning.step_size > 0, Moves(f, NextSetting(f)), Whole(f, f.auto_step),
         NEW c \in Candidates, OfStep(c, f.auto_step)
  PROVE  c \in h.tried
  <1>1. f.auto_sub_step >= 1
    BY DEF StandInv
  <1>2. \A k \in 0 .. 3 : f.auto_sub_step <= k => ~Ready(f.auto_step, k)
    BY DEF Moves
  <1>3. Passed(c, f.auto_step, f.auto_sub_step, f.inversion)
    BY <1>1, <1>2, AllPassed
  <1> QED
    BY <1>3 DEF AllInv

\* Nothing is left out by a tune either.
LEMMA TuneAll ==
  ASSUME TypeOK, NEW f \in Fp, NEW g \in Fp, NEW h, NEW k, Advances(f, g), ~Wrapped(f),
         StandInv(f, h), AllInv(f, h), k.tried = h.tried \cup {Setting(f)}
  PROVE  AllInv(g, k)
  <1> DEFINE y == NextSetting(f)
             q == Setting(f)
             s == f.auto_step
             ss == tuning.step_size
             md == tuning.max_drift
  <1> SUFFICES ASSUME ~Resumed(f) \/ ss > 0
               PROVE  /\ \A n \in 0 .. UIntMod - 1 : Behind(g, n) /\ Whole(f, n) =>
                           \A c \in Candidates : OfStep(c, n) => c \in k.tried
                      /\ Whole(f, y.step) => \A c \in Candidates : Passed(c, y.step, y.sub + 1, y.inversion) => c \in k.tried
    BY DEF AllInv, Advances, Whole
  <1>0. /\ s \in 0 .. UIntMod - 1 /\ s \in Nat /\ f.auto_sub_step \in 0 .. 4 /\ f.check_wrapped \in BOOLEAN
        /\ f.started_auto_step \in 0 .. UIntMod - 1 /\ UIntMod \in Nat /\ ss \in Nat /\ md \in Nat
    BY UIntAssumption, TuningFacts DEF Fp
  <1>1. /\ g.auto_step = y.step /\ g.started_auto_step = f.started_auto_step
    BY DEF Advances
  <1>2. Stays(f, y) \/ Moves(f, y)
    BY NextCases
  <1>3. y.step \in 0 .. UIntMod - 1 /\ y.step \in Nat /\ y.sub \in 0 .. 3 /\ q \in Candidates
    BY SettingFacts, SettingShape, UIntAssumption
  <1>4. y.sub = 0 => \A c : Passed(c, y.step, y.sub + 1, y.inversion) => c = q
    <2>1. y.sub = 0 => q = Plus(y.step, y.inversion)
      BY SettingShape
    <2> HIDE DEF y, q
    <2> QED
      BY <2>1 DEF Passed
  <1>5. \A n \in 0 .. UIntMod - 1, c \in Candidates : OfStep(c, n) => ~(n * ss > md)
    BY <1>0, OutOfRange
  <1>6. ~f.check_wrapped => f.started_auto_step = s /\ h.tried = {}
    BY DEF StandInv, NewSearch
  <1>7. ~f.check_wrapped /\ ~Resumed(f) => s = 0 /\ f.auto_sub_step = 0
    BY <1>0 DEF StandInv
  <1>8. CASE Stays(f, y) /\ f.check_wrapped
    <2>1. y.step = s
      BY <1>8 DEF Stays, StandInv
    <2>2. \A c : Passed(c, y.step, y.sub + 1, y.inversion) <=> Passed(c, s, f.auto_sub_step, f.inversion) \/ c = q
      BY <1>8, <2>1, StayPassed
    <2>3. \A n : Behind(g, n) <=> Behind(f, n)
      BY <1>1, <2>1 DEF Behind
    <2>4. /\ \A n \in 0 .. UIntMod - 1 : Behind(f, n) /\ Whole(f, n) =>
               \A c \in Candidates : OfStep(c, n) => c \in h.tried
          /\ Whole(f, s) => \A c \in Candidates : Passed(c, s, f.auto_sub_step, f.inversion) => c \in h.tried
      BY <1>8 DEF AllInv
    <2> HIDE DEF y, q, s
    <2> QED
      BY <2>1, <2>2, <2>3, <2>4 DEF q
  <1>9. CASE Stays(f, y) /\ ~f.check_wrapped /\ y.step = s
    <2>1. \A n \in 0 .. UIntMod - 1 : ~Behind(g, n)
      BY <1>0, <1>1, <1>6, <1>9 DEF Behind
    <2>2. CASE ~Resumed(f)
      <3>1. y.sub = 0
        <4>1. /\ y.sub >= f.auto_sub_step
              /\ \A j \in 0 .. 3 : f.auto_sub_step <= j /\ j < y.sub => ~Ready(y.step, j)
          BY <1>9 DEF Stays
        <4>2. Ready(y.step, 0)
          BY DEF Ready
        <4> HIDE DEF y
        <4> QED
          BY <1>3, <1>7, <1>9, <2>2, <4>1, <4>2
      <3> HIDE DEF y, q, s
      <3> QED
        BY <1>4, <2>1, <3>1 DEF q
    <2>3. CASE Resumed(f)
      <3>1. ~Whole(f, y.step)
        BY <1>6, <1>9, <2>3 DEF Whole
      <3> HIDE DEF y, q, s
      <3> QED
        BY <2>1, <3>1
    <2> QED
      BY <2>2, <2>3
  <1>10. CASE Stays(f, y) /\ ~f.check_wrapped /\ y.step # s
    <2>1. y.sub = 0 /\ InRange(s) # s /\ y.step = InRange(s)
      BY <1>10 DEF Stays
    <2>2. y.step = 0 /\ s * ss > md
      BY <2>1 DEF InRange
    <2>3. ASSUME NEW n \in 0 .. UIntMod - 1, Behind(g, n), Whole(f, n)
          PROVE  n * ss > md
      <3>1. n >= s
        BY <1>0, <1>1, <1>6, <1>10, <2>2, <2>3 DEF Behind
      <3>2. n \in Nat
        BY <1>0
      <3>3. s * ss <= n * ss /\ n * ss \in Nat /\ s * ss \in Nat
        BY <1>0, <3>1, <3>2, Times
      <3> QED
        BY <1>0, <2>2, <3>3
    <2> HIDE DEF y, q, s
    <2> QED
      BY <1>4, <1>5, <2>1, <2>3 DEF q
  <1>11. CASE Moves(f, y) /\ y.step = f.started_auto_step
    <2>1. y.sub = 0 /\ ~f.check_wrapped
      BY <1>11 DEF Moves, Wrapped
    <2>2. \A n \in 0 .. UIntMod - 1 : ~Behind(g, n)
      BY <1>0, <1>1, <1>11 DEF Behind
    <2> HIDE DEF y, q, s
    <2> QED
      BY <1>4, <2>1, <2>2 DEF q
  <1>12. CASE Moves(f, y) /\ y.step # f.started_auto_step
    <2>1. y.sub = 0 /\ y.step = InRange((s + 1) % UIntMod)
      BY <1>12 DEF Moves
    <2>2. \A n \in 0 .. UIntMod - 1 : Behind(g, n) => Behind(f, n) \/ n = s \/ n * ss > md
      BY <1>1, <1>12, <2>1, MoveOn
    <2>3. CASE f.check_wrapped
      <3>1. Whole(f, s) => \A c \in Candidates : OfStep(c, s) => c \in h.tried
        BY <1>12, <2>3, StepDone
      <3>2. \A n \in 0 .. UIntMod - 1 : Behind(f, n) /\ Whole(f, n) =>
               \A c \in Candidates : OfStep(c, n) => c \in h.tried
        BY <2>3 DEF AllInv
      <3> HIDE DEF y, q, s
      <3> QED
        BY <1>4, <1>5, <2>1, <2>2, <3>1, <3>2 DEF q
    <2>4. CASE ~f.check_wrapped
      <3>1. Resumed(f)
        <4>1. ~(f.auto_sub_step = 0)
          <5>1. Ready(s, 0)
            BY DEF Ready
          <5> QED
            BY <1>0, <1>12, <5>1 DEF Moves
        <4> QED
          BY <1>7, <2>4, <4>1
      <3>2. ~Whole(f, s)
        BY <1>6, <2>4, <3>1 DEF Whole
      <3>3. \A n \in 0 .. UIntMod - 1 : ~Behind(f, n)
        BY <1>0, <1>6, <2>4 DEF Behind
      <3> HIDE DEF y, q, s
      <3> QED
        BY <1>4, <1>5, <2>1, <2>2, <3>2, <3>3 DEF q
    <2> QED
      BY <1>0, <2>3, <2>4
  <1> QED
    BY <1>0, <1>2, <1>8, <1>9, <1>10, <1>11, <1>12

\* A tune that is not the end of the search.
LEMMA TuneFast ==
  ASSUME TypeOK, NEW f \in Fp, NEW g \in Fp, NEW h, h.tries \in Nat, FastInv(f, h), Advances(f, g), ~Wrapped(f)
  PROVE  FastInv(g, [tried |-> h.tried \cup {Setting(f)}, tries |-> Least(h.tries + 1, MaxTries)])
  <1> DEFINE y == NextSetting(f)
             k == [tried |-> h.tried \cup {Setting(f)}, tries |-> Least(h.tries + 1, MaxTries)]
  <1>1. /\ StandInv(f, h) /\ NewInv(f, h) /\ AllInv(f, h) /\ h.tried \subseteq Candidates
        /\ k.tried = h.tried \cup {Setting(f)} /\ k.tries = Least(h.tries + 1, MaxTries)
    BY DEF FastInv
  <1>2. /\ g.auto_step = y.step /\ g.auto_sub_step = y.sub + 1 /\ g.started_auto_step = f.started_auto_step
        /\ g.check_wrapped /\ (Resumed(g) <=> Resumed(f))
    BY DEF Advances
  <1>3. y.sub \in 0 .. 3 /\ f.auto_step \in 0 .. UIntMod - 1 /\ UIntMod \in Nat /\ UIntMod > 0
    BY SettingFacts, UIntAssumption DEF Fp
  <1>4. Setting(f) \in Candidates
    BY SettingShape
  <1> HIDE DEF k
  <1>5. InRange(y.step) = y.step
    <2>1. PICK n \in 0 .. UIntMod - 1 : y.step = InRange(n)
      <3>1. CASE Stays(f, y)
        BY <1>3, <3>1 DEF Stays
      <3>2. CASE Moves(f, y)
        <4>1. (f.auto_step + 1) % UIntMod \in 0 .. UIntMod - 1
          BY <1>3
        <4> QED
          BY <3>2, <4>1 DEF Moves
      <3> QED
        BY <3>1, <3>2, NextCases
    <2>2. y.step * tuning.step_size \in Nat /\ y.step * tuning.step_size <= tuning.max_drift /\ tuning.max_drift \in Nat
      BY <2>1, RangeFacts, TuningFacts
    <2> HIDE DEF y
    <2> QED
      BY <2>2 DEF InRange
  <1>6. StandInv(g, k)
    <2> HIDE DEF y
    <2>1. y.sub + 1 >= 1
      BY <1>3
    <2> QED
      BY <1>1, <1>2, <1>5, <2>1 DEF StandInv
  <1>7. k.tried \subseteq Candidates
    BY <1>1, <1>4
  <1>8. NewInv(g, k)
    <2> SUFFICES ASSUME tuning.step_size > 0, InRange(f.started_auto_step) = f.started_auto_step
                 PROVE  /\ k.tries <= Cardinality(k.tried)
                        /\ \A c \in k.tried : \/ Passed(c, g.auto_step, g.auto_sub_step, g.inversion)
                                              \/ \E n \in 0 .. UIntMod - 1 : Behind(g, n) /\ OfStep(c, n)
      BY <1>2 DEF NewInv
    <2>1. /\ Setting(f) \notin h.tried
          /\ \A c \in k.tried : \/ Passed(c, g.auto_step, g.auto_sub_step, g.inversion)
                                \/ \E n \in 0 .. UIntMod - 1 : Behind(g, n) /\ OfStep(c, n)
      BY <1>1, TuneNew
    <2>2. IsFiniteSet(h.tried)
      BY <1>1, CandidatesFinite, FS_Subset
    <2>3. Cardinality(k.tried) = Cardinality(h.tried) + 1 /\ Cardinality(h.tried) \in Nat
      BY <1>1, <2>1, <2>2, FS_AddElement, FS_CardinalityType
    <2>4. h.tries <= Cardinality(h.tried)
      BY <1>1 DEF NewInv
    <2>5. k.tries <= h.tries + 1
      BY <1>1, <1>3 DEF Least, MaxTries
    <2>6. k.tries \in Nat
      BY <1>1, <1>3 DEF Least, MaxTries
    <2>7. k.tries <= Cardinality(k.tried)
      BY <2>3, <2>4, <2>5, <2>6
    <2> QED
      BY <2>1, <2>7
  <1>9. AllInv(g, k)
    BY <1>1, TuneAll
  <1> QED
    BY <1>6, <1>7, <1>8, <1>9 DEF FastInv, k

\* A search that is about to start.
LEMMA Fresh ==
  ASSUME NEW f, ~f.check_wrapped, f.started_auto_step = f.auto_step,
         ~Resumed(f) => f.started_auto_step = 0 /\ f.auto_sub_step = 0
  PROVE  FastInv(f, NewSearch)
  <1>1. Cardinality({}) = 0
    BY FS_EmptySet
  <1>2. StandInv(f, NewSearch)
    BY DEF StandInv
  <1>3. NewInv(f, NewSearch)
    BY <1>1 DEF NewInv, NewSearch
  <1>4. AllInv(f, NewSearch)
    BY DEF AllInv
  <1>5. NewSearch.tried \subseteq Candidates
    BY DEF NewSearch
  <1> QED
    BY <1>2, <1>3, <1>4, <1>5 DEF FastInv

\* f and g stand at the same place in the same search.
Same(f, g) ==
  /\ g.auto_step = f.auto_step /\ g.auto_sub_step = f.auto_sub_step /\ g.inversion = f.inversion
  /\ g.started_auto_step = f.started_auto_step /\ g.check_wrapped = f.check_wrapped
  /\ Resumed(g) <=> Resumed(f)

\* Status and tune mode do not matter to the search.
LEMMA SameInv ==
  ASSUME NEW f, NEW g, NEW h, Same(f, g), FastInv(f, h)
  PROVE  FastInv(g, h)
  <1>1. \A n : (Behind(g, n) <=> Behind(f, n)) /\ (Whole(g, n) <=> Whole(f, n))
    BY DEF Behind, Whole, Same
  <1>2. StandInv(g, h)
    BY DEF StandInv, Same, FastInv
  <1>3. NewInv(g, h)
    BY <1>1 DEF NewInv, Same, FastInv
  <1>4. AllInv(g, h)
    BY <1>1 DEF AllInv, Same, FastInv
  <1> QED
    BY <1>2, <1>3, <1>4 DEF FastInv

\* The invariant speaks of the next state as long as tuning and parameters are the same.
LEMMA Primed ==
  ASSUME UNCHANGED <<caps, tuning, prm>>, FastInv(fp', search')
  PROVE  FastInv(fp, search)'
  <1>1. AutoInversion' = AutoInversion
    BY DEF AutoInversion
  <1>2. Candidates' = Candidates
    BY <1>1 DEF Candidates
  <1>3. \A n : InRange(n)' = InRange(n)
    BY DEF InRange
  <1>4. \A n, v : Plus(n, v)' = Plus(n, v) /\ Minus(n, v)' = Minus(n, v)
    BY <1>1 DEF Plus, Minus
  <1>5. \A c, n : OfStep(c, n)' <=> OfStep(c, n)
    BY DEF OfStep
  <1>6. \A c, n, b, v : Passed(c, n, b, v)' <=> Passed(c, n, b, v)
    BY <1>4 DEF Passed
  <1>7. StandInv(fp, search)' <=> StandInv(fp', search')
    BY <1>3 DEF StandInv, Resumed, NewSearch
  <1>8. NewInv(fp, search)' <=> NewInv(fp', search')
    BY <1>3, <1>5, <1>6 DEF NewInv, Behind
  <1>9. AllInv(fp, search)' <=> AllInv(fp', search')
    BY <1>2, <1>5, <1>6 DEF AllInv, Behind, Whole, Resumed
  <1> QED
    BY <1>2, <1>7, <1>8, <1>9 DEF FastInv

\* The states of the fast search.
LEMMA FastStates ==
  /\ \A s \in States : Has(s, SearchingFast) <=> s \in {{"TUNING_FAST"}, {"ZIGZAG_FAST"}}
  /\ {Idle, Retune, SearchingSlow, Tuned, Diseqc, Error} \cap {{"TUNING_FAST"}, {"ZIGZAG_FAST"}} = {}
  /\ {"TUNING_FAST"} # {"ZIGZAG_FAST"} /\ Retune # Tuned
  <1>1. \A s \in {Idle, Retune, SearchingSlow, Tuned, Diseqc, Error} : "TUNING_FAST" \notin s /\ "ZIGZAG_FAST" \notin s
    BY DEF Idle, Retune, SearchingSlow, Tuned, Diseqc, Error
  <1>2. "RETUNE" \in Retune /\ "RETUNE" \notin Tuned
    BY DEF Retune, Tuned
  <1>3. {"TUNING_FAST"} # {"ZIGZAG_FAST"}
    OBVIOUS
  <1>4. {Idle, Retune, SearchingSlow, Tuned, Diseqc, Error} \cap {{"TUNING_FAST"}, {"ZIGZAG_FAST"}} = {}
    BY <1>1
  <1>5. ASSUME NEW s \in States
        PROVE  Has(s, SearchingFast) <=> s \in {{"TUNING_FAST"}, {"ZIGZAG_FAST"}}
    <2>1. CASE s \in {{"TUNING_FAST"}, {"ZIGZAG_FAST"}}
      <3>1. s \cap SearchingFast # {}
        BY <2>1 DEF SearchingFast
      <3> QED
        BY <2>1, <3>1 DEF Has
    <2>2. CASE s \in {Idle, Retune, SearchingSlow, Tuned, Diseqc, Error}
      <3>1. s \cap SearchingFast = {}
        BY <1>1, <2>2 DEF SearchingFast
      <3> QED
        BY <1>4, <2>2, <3>1 DEF Has
    <2> QED
      BY <2>1, <2>2 DEF States
  <1> QED
    BY <1>2, <1>3, <1>4, <1>5

\* Where the fast search stands when it goes on, and what it has tried by then.
History == IF fp.state \in {Retune, Tuned} THEN NewSearch ELSE search

\* A retune and a loss of lock start a search, else it goes on.
LEMMA FastFromInv ==
  ASSUME ZigzagInv, SearchInv, Fast(FastFrom), prm.asked = asked
  PROVE  FastInv(FastFrom, History)
  <1>0. fp \in Fp /\ StatusRead \in Fp /\ StatusRead.state = fp.state /\ fp.state \in States
    BY TuningFacts, StandFacts DEF ZigzagInv, Fp
  <1>1. CASE fp.state = Retune
    <2>1. FastFrom = [fp EXCEPT !.auto_step = 0, !.auto_sub_step = 0, !.started_auto_step = 0, !.check_wrapped = FALSE]
      BY <1>1 DEF FastFrom
    <2>2. /\ ~FastFrom.check_wrapped /\ FastFrom.auto_step = 0 /\ FastFrom.auto_sub_step = 0
          /\ FastFrom.started_auto_step = 0
      BY <1>0, <2>1 DEF Fp
    <2> HIDE DEF FastFrom
    <2> QED
      BY <1>1, <2>2, Fresh DEF History
  <1>2. CASE fp.state = Tuned
    <2>1. FastFrom = Lost(StatusRead)
      BY <1>2, FastStates DEF FastFrom, AfterLoss
    <2>2. /\ ~FastFrom.check_wrapped /\ FastFrom.started_auto_step = FastFrom.auto_step
          /\ FastFrom.state = {"ZIGZAG_FAST"}
      <3> HIDE DEF StatusRead, FastFrom
      <3> QED
        BY <1>0, <2>1 DEF Fp, Lost
    <2> HIDE DEF FastFrom
    <2> QED
      BY <1>2, <2>2, Fresh DEF History, Resumed
  <1>3. CASE fp.state \notin {Retune, Tuned}
    <2>1. FastFrom = StatusRead /\ History = search
      BY <1>3 DEF FastFrom, AfterLoss, History
    <2>2. fp.state \in {{"TUNING_FAST"}, {"ZIGZAG_FAST"}}
      BY <1>0, <1>3, <2>1, FastStates DEF Fast
    <2>3. FastInv(fp, search)
      BY <2>2 DEF SearchInv, SearchesFast
    <2>4. Same(fp, StatusRead)
      BY <1>0 DEF Same, StatusRead, Resumed, Fp
    <2> QED
      BY <2>1, <2>3, <2>4, SameInv
  <1> QED
    BY <1>1, <1>2, <1>3

\* The fast zigzag goes on by one setting.
LEMMA FastTuneStep ==
  ASSUME ZigzagInv, SearchInv, FastTune
  PROVE  SearchInv'
  <1> DEFINE f == FastFrom
             h == History
             y == NextSetting(f)
             k == [tried |-> h.tried \cup {Setting(f)}, tries |-> Least(h.tries + 1, MaxTries)]
  <1>0. f \in Fp /\ TypeOK
    BY StandFacts DEF ZigzagInv
  <1>1. Fast(f) /\ ~Wrapped(f) /\ search' = k /\ UNCHANGED <<caps, tuning, asked>>
    BY DEF FastTune, History
  <1>2. \/ /\ fp' = [Reached(f, y, 1) EXCEPT !.state = IF @ = Retune THEN {"TUNING_FAST"} ELSE @, !.check_wrapped = TRUE]
           /\ prm' = prm
        \/ fp' = [Reached(f, y, 0) EXCEPT !.state = Error]
    BY DEF FastTune, Tune
  <1>3. h.tries \in Nat
    BY DEF History, SearchInv, NewSearch
  <1>4. search'.tries \in Nat
    BY <1>1, <1>3, UIntAssumption DEF Least, MaxTries
  <1>5. /\ y.step \in 0 .. UIntMod - 1 /\ y.sub \in 0 .. 3 /\ y.inversion \in Inversions
    BY <1>0, SettingFacts
  <1> HIDE DEF f, y, h
  <1>6. CASE fp' = [Reached(f, y, 0) EXCEPT !.state = Error]
    <2>1. "state" \in DOMAIN Reached(f, y, 0)
      BY <1>0 DEF Reached, Fp
    <2>2. fp'.state = Error
      BY <1>6, <2>1
    <2> QED
      BY <1>4, <2>2, FastStates DEF SearchInv, SearchesFast
  <1>7. CASE /\ fp' = [Reached(f, y, 1) EXCEPT !.state = IF @ = Retune THEN {"TUNING_FAST"} ELSE @, !.check_wrapped = TRUE]
             /\ prm' = prm
    <2>1. PICK r \in Fp : /\ r = Reached(f, y, 1)
                          /\ r.auto_step = y.step /\ r.auto_sub_step = y.sub + 1 /\ r.inversion = y.inversion
                          /\ r.started_auto_step = f.started_auto_step /\ r.state = f.state
      <3>1. Reached(f, y, 1) = [f EXCEPT !.auto_step = y.step, !.auto_sub_step = y.sub + 1, !.inversion = y.inversion]
        BY DEF Reached
      <3>2. y.sub + 1 \in 0 .. 4
        BY <1>5
      <3> QED
        BY <1>0, <1>5, <3>1, <3>2 DEF Fp
    <2>2. fp' = [r EXCEPT !.state = IF r.state = Retune THEN {"TUNING_FAST"} ELSE r.state, !.check_wrapped = TRUE]
      BY <1>7, <2>1
    <2>3. /\ fp'.auto_step = y.step /\ fp'.auto_sub_step = y.sub + 1 /\ fp'.inversion = y.inversion
          /\ fp'.started_auto_step = f.started_auto_step /\ fp'.check_wrapped
          /\ fp'.state = IF f.state = Retune THEN {"TUNING_FAST"} ELSE f.state
      BY <2>1, <2>2 DEF Fp
    <2>4. Advances(f, fp')
      BY <2>3, FastStates DEF Advances, Resumed, y
    <2>5. fp' \in Fp
      <3>1. Tune(FastFrom)
        BY DEF FastTune
      <3> QED
        BY <1>0, <3>1, TuneFacts DEF f
    <2>6. ASSUME SearchesFast'
          PROVE  FastInv(fp, search)'
      <3>1. prm.asked = asked
        BY <1>1, <1>7, <2>6 DEF SearchesFast
      <3>2. FastInv(f, h)
        BY <1>1, <3>1, FastFromInv DEF f, h
      <3>3. FastInv(fp', search')
        BY <1>0, <1>1, <1>3, <2>4, <2>5, <3>2, TuneFast
      <3> QED
        BY <1>1, <1>7, <3>3, Primed
    <2> QED
      BY <1>4, <2>6 DEF SearchInv
  <1> QED
    BY <1>2, <1>6, <1>7

\* Everything else leaves the fast search alone, ends it or has it start anew.
LEMMA SearchStep ==
  ASSUME ZigzagInv, SearchInv, [Next]_vars
  PROVE  SearchInv'
  <1>0. /\ fp \in Fp /\ search.tries \in Nat /\ asked \in Nat
        /\ StatusRead \in Fp /\ StatusRead.state = fp.state /\ FastFrom \in Fp
    BY TuningFacts, StandFacts DEF ZigzagInv, SearchInv, CountersInv
  <1>1. ASSUME ~SearchesFast', search' = search \/ search' = NewSearch
        PROVE  SearchInv'
    BY <1>0, <1>1 DEF SearchInv, NewSearch
  <1>2. ASSUME fp'.state \in {Idle, Retune, SearchingSlow, Tuned, Diseqc, Error}, search' = search \/ search' = NewSearch
        PROVE  SearchInv'
    BY <1>1, <1>2, FastStates DEF SearchesFast
  <1>3. ASSUME UNCHANGED <<caps, tuning, prm, asked, search>>, Same(fp, fp'), fp'.state = fp.state
        PROVE  SearchInv'
    <2>1. SearchesFast' => SearchesFast
      BY <1>3 DEF SearchesFast
    <2>2. FastInv(fp, search) => FastInv(fp', search')
      BY <1>3, SameInv
    <2> QED
      BY <1>0, <1>3, <2>1, <2>2, Primed DEF SearchInv
  <1>4. Same(fp, StatusRead)
    BY <1>0 DEF Same, StatusRead, Resumed, Fp
  <1>5. CASE OneShot
    <2>1. (fp' = [fp EXCEPT !.state = Tuned] \/ fp' = [fp EXCEPT !.state = Error]) /\ search' = search
      BY <1>5 DEF OneShot
    <2>2. fp'.state \in {Tuned, Error}
      BY <1>0, <2>1 DEF Fp
    <2> QED
      BY <1>2, <2>1, <2>2
  <1>6. CASE FoundLock
    <2>1. fp' = [StatusRead EXCEPT !.state = Tuned] /\ search' = search
      BY <1>6 DEF FoundLock
    <2>2. fp'.state = Tuned
      <3> HIDE DEF StatusRead
      <3> QED
        BY <1>0, <2>1 DEF Fp
    <2> QED
      BY <1>2, <2>1, <2>2
  <1>7. CASE Watch
    <2>1. fp' = StatusRead /\ search' = search /\ fp.state \in {Tuned, Error}
      BY <1>7 DEF Watch
    <2> QED
      BY <1>0, <1>2, <2>1
  <1>8. CASE Wait
    <2>1. fp' = AfterLoss /\ UNCHANGED <<caps, tuning, prm, asked>>
          /\ search' = IF fp.state = Tuned THEN NewSearch ELSE search
      BY <1>8 DEF Wait, history
    <2>2. CASE fp.state = Tuned
      <3>1. fp' = Lost(StatusRead) /\ search' = NewSearch
        BY <2>1, <2>2 DEF AfterLoss
      <3>2. ~fp'.check_wrapped /\ fp'.started_auto_step = fp'.auto_step /\ fp'.state = {"ZIGZAG_FAST"}
        <4> HIDE DEF StatusRead
        <4> QED
          BY <1>0, <3>1 DEF Fp, Lost
      <3>3. FastInv(fp', search')
        BY <3>1, <3>2, Fresh DEF Resumed
      <3>4. search'.tries \in Nat
        BY <3>1 DEF NewSearch
      <3> QED
        BY <2>1, <3>3, <3>4, Primed DEF SearchInv
    <2>3. CASE fp.state # Tuned
      BY <1>0, <1>3, <1>4, <2>1, <2>3 DEF AfterLoss
    <2> QED
      BY <2>2, <2>3
  <1>9. CASE FastTune
    BY <1>9, FastTuneStep
  <1>10. CASE FastEnd
    <2> DEFINE r == Reached(FastFrom, NextSetting(FastFrom), 0)
    <2>1. /\ fp' = [r EXCEPT !.state = SearchingSlow, !.started_auto_step = NextSetting(FastFrom).step]
          /\ search' = search
      BY <1>10 DEF FastEnd
    <2>2. "state" \in DOMAIN r
      <3> HIDE DEF FastFrom
      <3> QED
        BY <1>0 DEF Reached, Fp
    <2> HIDE DEF r
    <2>3. fp'.state = SearchingSlow
      BY <2>1, <2>2
    <2> QED
      BY <1>2, <2>1, <2>3
  <1>11. CASE SlowTune
    <2> DEFINE y == NextSetting(StatusRead)
    <2>1. /\ Has(fp.state, SearchingSlow) /\ search' = search
          /\ \/ fp' = [Reached(StatusRead, y, 1) EXCEPT !.state = IF @ = Retune THEN {"TUNING_FAST"} ELSE @, !.check_wrapped = TRUE]
             \/ fp' = [Reached(StatusRead, y, 0) EXCEPT !.state = Error]
      BY <1>11 DEF SlowTune, Tune
    <2>2. fp.state = SearchingSlow
      <3>1. \A s \in {Idle, Retune, {"TUNING_FAST"}, Tuned, {"ZIGZAG_FAST"}, Diseqc, Error} : s \cap SearchingSlow = {}
        BY DEF Idle, Retune, Tuned, Diseqc, Error, SearchingSlow
      <3>2. fp.state \in States
        BY <1>0 DEF Fp
      <3> QED
        BY <2>1, <3>1, <3>2 DEF Has, States
    <2> HIDE DEF y, StatusRead
    <2>3. \A a : "state" \in DOMAIN Reached(StatusRead, y, a) /\ Reached(StatusRead, y, a).state = fp.state
      BY <1>0 DEF Reached, Fp
    <2>4. SearchingSlow # Retune
      BY StateFacts
    <2>5. fp'.state \in {SearchingSlow, Error}
      <3>1. CASE fp' = [Reached(StatusRead, y, 0) EXCEPT !.state = Error]
        BY <2>3, <3>1
      <3>2. CASE fp' = [Reached(StatusRead, y, 1) EXCEPT !.state = IF @ = Retune THEN {"TUNING_FAST"} ELSE @, !.check_wrapped = TRUE]
        <4>1. PICK r : r = Reached(StatusRead, y, 1)
          OBVIOUS
        <4>2. "state" \in DOMAIN r /\ r.state = SearchingSlow
          BY <2>2, <2>3, <4>1
        <4>3. fp' = [r EXCEPT !.state = IF r.state = Retune THEN {"TUNING_FAST"} ELSE r.state, !.check_wrapped = TRUE]
          BY <3>2, <4>1
        <4> QED
          BY <2>4, <4>2, <4>3
      <3> QED
        BY <2>1, <3>1, <3>2
    <2> QED
      BY <1>2, <2>1, <2>5
  <1>12. ASSUME NEW t \in Tunings, NEW inversion \in Inversions \cup {"auto"}, SetFrontend(t, inversion)
         PROVE  SearchInv'
    <2>1. fp' = [fp EXCEPT !.state = Retune, !.status = FALSE] /\ search' = search
      BY <1>12 DEF SetFrontend
    <2>2. fp'.state = Retune
      BY <1>0, <2>1 DEF Fp
    <2> QED
      BY <1>2, <2>1, <2>2
  <1>13. ASSUME NEW inversion \in Inversions \cup {"auto"}, RejectTune(inversion)
         PROVE  SearchInv'
    <2>1. prm'.asked = -1 /\ asked' = asked /\ search' = search
      BY <1>13 DEF RejectTune
    <2>2. ~SearchesFast'
      BY <1>0, <2>1 DEF SearchesFast
    <2> QED
      BY <1>1, <2>1, <2>2
  <1>14. CASE DiseqcCommand
    <2>1. fp' = [fp EXCEPT !.state = Diseqc, !.status = FALSE] /\ search' = search
      BY <1>14 DEF DiseqcCommand
    <2>2. fp'.state = Diseqc
      BY <1>0, <2>1 DEF Fp
    <2> QED
      BY <1>2, <2>1, <2>2
  <1>15. ASSUME NEW oneshot \in BOOLEAN, fp' = [fp EXCEPT !.oneshot = oneshot],
                UNCHANGED <<caps, tuning, prm, asked, search>>
         PROVE  SearchInv'
    <2>1. Same(fp, fp') /\ fp'.state = fp.state
      BY <1>0, <1>15 DEF Fp, Same, Resumed
    <2> QED
      BY <1>3, <1>15, <2>1
  <1>16. ASSUME NEW oneshot \in BOOLEAN, SetTuneMode(oneshot)
         PROVE  SearchInv'
    BY <1>15, <1>16 DEF SetTuneMode, history
  <1>17. ASSUME NEW restart \in BOOLEAN, Reopen(restart)
         PROVE  SearchInv'
    <2>1. UNCHANGED <<caps, tuning, prm, asked, search>>
      BY <1>17 DEF Reopen
    <2>2. CASE restart
      <3>1. fp' = [fp EXCEPT !.oneshot = FALSE, !.state = Idle, !.status = FALSE, !.check_wrapped = FALSE]
        BY <1>17, <2>2 DEF Reopen
      <3>2. fp'.state = Idle
        BY <1>0, <3>1 DEF Fp
      <3> QED
        BY <1>2, <2>1, <3>2
    <2>3. CASE ~restart
      BY <1>15, <1>17, <2>1, <2>3 DEF Reopen
    <2> QED
      BY <2>2, <2>3
  <1>18. CASE SignalChange \/ UNCHANGED vars
    <2>1. UNCHANGED <<caps, tuning, fp, prm, asked, search>>
      BY <1>18 DEF SignalChange, vars, history
    <2> QED
      BY <1>3, <2>1 DEF Same, Resumed
  <1> QED
    BY <1>5, <1>6, <1>7, <1>8, <1>9, <1>10, <1>11, <1>12, <1>13, <1>14, <1>16, <1>17, <1>18 DEF Next, Thread

\* Only the end of the fast search leads to the slow one.
LEMMA OnlyFastEnd ==
  ASSUME ZigzagInv, [Next]_vars, fp'.state = SearchingSlow, fp.state # SearchingSlow
  PROVE  FastEnd
  <1>0. /\ fp \in Fp /\ fp.state \in States /\ StatusRead \in Fp /\ StatusRead.state = fp.state /\ FastFrom \in Fp
    BY TuningFacts, StandFacts DEF ZigzagInv, Fp
  <1>1. SearchingSlow \notin {Idle, Retune, {"TUNING_FAST"}, Tuned, {"ZIGZAG_FAST"}, Diseqc, Error}
    <2>1. "TUNING_SLOW" \in SearchingSlow
      BY DEF SearchingSlow
    <2>2. \A s \in {Idle, Retune, {"TUNING_FAST"}, Tuned, {"ZIGZAG_FAST"}, Diseqc, Error} : "TUNING_SLOW" \notin s
      BY DEF Idle, Retune, Tuned, Diseqc, Error
    <2> QED
      BY <2>1, <2>2
  <1>2. ASSUME NEW f \in Fp, Tune(f), f.state # SearchingSlow
        PROVE  FALSE
    <2> DEFINE y == NextSetting(f)
    <2>1. \/ fp' = [Reached(f, y, 1) EXCEPT !.state = IF @ = Retune THEN {"TUNING_FAST"} ELSE @, !.check_wrapped = TRUE]
          \/ fp' = [Reached(f, y, 0) EXCEPT !.state = Error]
      BY <1>2 DEF Tune
    <2> HIDE DEF y
    <2>2. \A a : "state" \in DOMAIN Reached(f, y, a) /\ Reached(f, y, a).state = f.state
      BY DEF Reached, Fp
    <2>3. CASE fp' = [Reached(f, y, 0) EXCEPT !.state = Error]
      BY <1>1, <2>2, <2>3
    <2>4. CASE fp' = [Reached(f, y, 1) EXCEPT !.state = IF @ = Retune THEN {"TUNING_FAST"} ELSE @, !.check_wrapped = TRUE]
      <3>1. PICK r : r = Reached(f, y, 1)
        OBVIOUS
      <3>2. "state" \in DOMAIN r /\ r.state = f.state
        BY <2>2, <3>1
      <3>3. fp' = [r EXCEPT !.state = IF r.state = Retune THEN {"TUNING_FAST"} ELSE r.state, !.check_wrapped = TRUE]
        BY <2>4, <3>1
      <3> QED
        BY <1>1, <1>2, <3>2, <3>3
    <2> QED
      BY <2>1, <2>3, <2>4
  <1>3. AfterLoss.state # SearchingSlow /\ FastFrom.state # SearchingSlow
    <2>1. Lost(StatusRead).state = {"ZIGZAG_FAST"}
      <3> HIDE DEF StatusRead
      <3> QED
        BY <1>0 DEF Lost, Fp
    <2>2. AfterLoss.state # SearchingSlow
      BY <1>0, <1>1, <2>1 DEF AfterLoss
    <2>3. fp.state = Retune => FastFrom.state = Retune
      BY <1>0 DEF FastFrom, Fp
    <2> QED
      BY <1>1, <2>2, <2>3 DEF FastFrom
  <1>4. ~OneShot /\ ~FoundLock
    <2>1. OneShot => fp'.state \in {Tuned, Error}
      BY <1>0 DEF OneShot, Fp
    <2>2. FoundLock => fp'.state = Tuned
      <3>1. FoundLock => fp' = [StatusRead EXCEPT !.state = Tuned]
        BY DEF FoundLock
      <3> HIDE DEF StatusRead
      <3> QED
        BY <1>0, <3>1 DEF Fp
    <2> QED
      BY <1>1, <2>1, <2>2
  <1>5. ~Watch /\ ~Wait
    BY <1>0, <1>3 DEF Watch, Wait
  <1>6. ~FastTune
    <2>1. FastTune => Tune(FastFrom)
      BY DEF FastTune
    <2> QED
      BY <1>0, <1>2, <1>3, <2>1
  <1>7. ~SlowTune
    <2>1. SlowTune => Tune(StatusRead)
      BY DEF SlowTune
    <2> QED
      BY <1>0, <1>2, <2>1
  <1>8. \A t \in Tunings, inversion \in Inversions \cup {"auto"} : ~SetFrontend(t, inversion)
    BY <1>0, <1>1 DEF SetFrontend, Fp
  <1>9. \A inversion \in Inversions \cup {"auto"} : ~RejectTune(inversion)
    BY <1>0 DEF RejectTune
  <1>10. ~DiseqcCommand
    BY <1>0, <1>1 DEF DiseqcCommand, Fp
  <1>11. \A oneshot \in BOOLEAN : ~SetTuneMode(oneshot)
    BY <1>0 DEF SetTuneMode, Fp
  <1>12. \A restart \in BOOLEAN : ~Reopen(restart)
    BY <1>0, <1>1 DEF Reopen, Fp
  <1>13. ~SignalChange /\ ~UNCHANGED vars
    BY DEF SignalChange, vars
  <1> QED
    BY <1>4, <1>5, <1>6, <1>7, <1>8, <1>9, <1>10, <1>11, <1>12, <1>13 DEF Next, Thread

-----------------------------------------------------------------------------
\* What parameters_in, the hardware and the state of the loop say about the request.
THEOREM ZigzagInvariant == Spec => []ZigzagInv
  <1>1. Init => ZigzagInv
    <2> SUFFICES ASSUME Init
                 PROVE  ZigzagInv
      OBVIOUS
    <2>1. /\ prm = [freq |-> 0, inversion |-> "off", asked |-> 0] /\ hw = prm
          /\ fp = [state |-> Idle, status |-> FALSE, oneshot |-> FALSE, inversion |-> "off",
                   auto_step |-> 0, auto_sub_step |-> 0, started_auto_step |-> 0, check_wrapped |-> FALSE]
          /\ tuning = [step_size |-> 0, max_drift |-> 0]
          /\ caps \in [auto : BOOLEAN, recover : BOOLEAN] /\ stale = FALSE
          /\ commands = 0 /\ asked = 0 /\ dropped = FALSE /\ failed = FALSE
      BY DEF Init
    <2>2. 0 \in 0 .. UIntMod - 1 /\ 0 \in 0 .. 4 /\ 0 \in -1 .. MaxCommands /\ 0 \in 0 .. MaxCommands /\ 0 \in 0 .. 0
      BY UIntAssumption, BoundAssumption
    <2>3. Idle \in States
      BY StateFacts
    <2>4. TypeOK
      BY <2>1, <2>2, <2>3 DEF TypeOK, Inversions
    <2>5. CountersInv
      BY <2>1, <2>2 DEF CountersInv
    <2>6. DriftInv /\ StatusInv
      BY <2>1 DEF DriftInv, StatusInv
    <2> QED
      BY <2>4, <2>5, <2>6 DEF ZigzagInv
  <1>2. ZigzagInv /\ [Next]_vars => ZigzagInv'
    BY ThreadStep, CommandStep
  <1> QED
    BY <1>1, <1>2, PTL DEF Spec

\* The search stays within max_drift of the frequency asked for.
THEOREM DriftCorrect == Spec => []WithinDrift
  <1>1. ZigzagInv => WithinDrift
    BY DEF ZigzagInv, DriftInv, WithinDrift
  <1> QED
    BY <1>1, ZigzagInvariant, PTL

\* The status of an earlier tuning is not shown, also when set_frontend fails and leaves
\* the hardware as it was.
THEOREM StatusCorrect == Spec => []StatusCurrent
  <1>1. ZigzagInv => StatusCurrent
    BY DEF ZigzagInv, StatusInv, StatusCurrent
  <1> QED
    BY <1>1, ZigzagInvariant, PTL

\* What a fast search has tried, and what is left to it.
THEOREM SearchInvariant == Spec => [](ZigzagInv /\ SearchInv)
  <1>1. Init => SearchInv
    <2> SUFFICES ASSUME Init
                 PROVE  SearchInv
      OBVIOUS
    <2>1. fp.state = Idle /\ search = NewSearch
      BY DEF Init
    <2> QED
      BY <2>1, FastStates DEF SearchInv, SearchesFast, NewSearch
  <1>2. ZigzagInv /\ SearchInv /\ [Next]_vars => SearchInv'
    BY SearchStep
  <1> QED
    BY <1>1, <1>2, ZigzagInvariant, PTL DEF Spec

\* The fast search tries no setting twice: it is over after as many tunes as there are
\* settings, whatever step it began with, if that one is in range.
THEOREM FastEndsCorrect == Spec => []FastEnds
  <1>1. ZigzagInv /\ SearchInv => FastEnds
    <2> SUFFICES ASSUME ZigzagInv, SearchInv, Has(fp.state, SearchingFast), tuning.step_size > 0, prm.asked = asked,
                        fp.state = {"ZIGZAG_FAST"} => InRange(fp.started_auto_step) = fp.started_auto_step
                 PROVE  search.tries <= Cardinality(Candidates)
      BY DEF FastEnds
    <2>0. TypeOK /\ fp \in Fp /\ tuning.max_drift \in Nat /\ tuning.step_size \in Nat
      BY TuningFacts DEF ZigzagInv
    <2>1. fp.state \in {{"TUNING_FAST"}, {"ZIGZAG_FAST"}}
      BY <2>0, FastStates DEF Fp
    <2>2. StandInv(fp, search) /\ NewInv(fp, search) /\ search.tried \subseteq Candidates
      BY <2>1 DEF SearchInv, SearchesFast, FastInv
    <2>3. InRange(fp.started_auto_step) = fp.started_auto_step
      <3>1. InRange(0) = 0
        BY <2>0 DEF InRange
      <3> QED
        BY <2>1, <2>2, <3>1 DEF StandInv, Resumed
    <2>4. search.tries <= Cardinality(search.tried) /\ search.tries \in Nat
      BY <2>2, <2>3 DEF NewInv, SearchInv
    <2>5. /\ Cardinality(search.tried) <= Cardinality(Candidates)
          /\ Cardinality(search.tried) \in Nat /\ Cardinality(Candidates) \in Nat
      BY <2>0, <2>2, CandidatesFinite, FS_Subset, FS_CardinalityType
    <2> QED
      BY <2>4, <2>5
  <1> QED
    BY <1>1, SearchInvariant, PTL

\* Its end: every candidate belongs to a step that is behind, or to the last one.
LEMMA Round ==
  ASSUME TypeOK, NEW f \in Fp, NEW h, FastInv(f, h), Wrapped(f), NEW c \in Candidates, c \notin h.tried
  PROVE  Resumed(f) /\ c.freq \in {f.started_auto_step * tuning.step_size, -(f.started_auto_step * tuning.step_size)}
  <1> DEFINE y == NextSetting(f)
             s == f.auto_step
             x == f.started_auto_step
             ss == tuning.step_size
             md == tuning.max_drift
  <1>0. /\ s \in 0 .. UIntMod - 1 /\ x \in 0 .. UIntMod - 1 /\ UIntMod \in Nat /\ ss \in Nat /\ md \in Nat
        /\ f.auto_sub_step \in 0 .. 4
    BY UIntAssumption, TuningFacts DEF Fp
  <1>1. f.check_wrapped /\ y.step = x /\ y.sub = 0
    BY DEF Wrapped
  <1>2. StandInv(f, h) /\ AllInv(f, h) /\ f.auto_sub_step >= 1 /\ InRange(s) = s
    BY <1>1 DEF FastInv, StandInv
  <1>3. Moves(f, y)
    <2>1. Stays(f, y) => y.step = s /\ y.sub >= f.auto_sub_step
      BY <1>2 DEF Stays
    <2> QED
      BY <1>0, <1>1, <1>2, <2>1, NextCases
  <1>4. PICK n \in 0 .. UIntMod - 1 : OfStep(c, n) /\ n * ss <= md
    BY CandidateFacts
  <1>5. CASE Resumed(f) /\ ss = 0
    <2>1. c.freq = 0 /\ x * ss = 0
      BY <1>0, <1>4, <1>5 DEF OfStep
    <2> QED
      BY <1>5, <2>1
  <1>6. CASE ~Resumed(f) \/ ss > 0
    <2>1. Behind(f, n) \/ n = s \/ n = x
      <3>1. x = InRange((s + 1) % UIntMod)
        BY <1>1, <1>3 DEF Moves
      <3>2. \/ x = s + 1
            \/ x = 0 /\ \A j \in 0 .. UIntMod - 1 : j > s => j * ss > md
        BY <1>0, <3>1, StepUp
      <3>3. Behind(f, n) <=> IF x <= s THEN x <= n /\ n < s ELSE n < s \/ n >= x
        BY DEF Behind
      <3>4. n \in Nat /\ n * ss \in Nat
        BY <1>0, Times
      <3> HIDE DEF x, s, ss, md
      <3>5. CASE x = s + 1
        BY <1>0, <3>3, <3>5
      <3>6. CASE x = 0 /\ \A j \in 0 .. UIntMod - 1 : j > s => j * ss > md
        <4>1. ~(n > s)
          BY <1>0, <1>4, <3>4, <3>6
        <4> QED
          BY <1>0, <3>3, <3>4, <3>6, <4>1
      <3> QED
        BY <3>2, <3>5, <3>6
    <2>2. CASE Whole(f, n) /\ Behind(f, n)
      BY <1>1, <1>2, <1>4, <1>6, <2>2 DEF AllInv
    <2>3. CASE Whole(f, n) /\ n = s
      BY <1>1, <1>2, <1>3, <1>4, <1>6, <2>3, StepDone
    <2>4. CASE Whole(f, n) /\ n = x /\ ~Behind(f, n) /\ n # s
      <3>1. ~Resumed(f) => x = 0
        BY <1>2 DEF StandInv
      <3>2. ~Resumed(f)
        BY <2>4 DEF Whole
      <3> QED
        BY <1>0, <2>4, <3>1, <3>2 DEF Behind
    <2>5. CASE ~Whole(f, n)
      <3>1. Resumed(f) /\ n = x
        BY <2>5 DEF Whole
      <3> QED
        BY <1>4, <3>1 DEF OfStep
    <2> QED
      BY <2>1, <2>2, <2>3, <2>4, <2>5
  <1> QED
    BY <1>0, <1>5, <1>6

\* The fast search gives up only when every setting has been tried, those of the step
\* excepted in whose middle it began after a loss of lock, and it tries no other.
THEOREM FastTriesAllCorrect == Spec => FastTriesAll
  <1> DEFINE Complete ==
        fp'.state = SearchingSlow /\ fp.state # SearchingSlow /\ prm.asked = asked =>
          /\ {c \in Candidates : c \notin search.tried}
               \subseteq {c \in Candidates : fp.state = {"ZIGZAG_FAST"}
                                           /\ c.freq \in {fp.started_auto_step * tuning.step_size, -fp.started_auto_step * tuning.step_size}}
          /\ search.tried \subseteq Candidates
  <1>1. ZigzagInv /\ SearchInv /\ [Next]_vars => Complete
    <2> SUFFICES ASSUME ZigzagInv, SearchInv, [Next]_vars, fp'.state = SearchingSlow, fp.state # SearchingSlow, prm.asked = asked
                 PROVE  /\ {c \in Candidates : c \notin search.tried}
                             \subseteq {c \in Candidates : fp.state = {"ZIGZAG_FAST"}
                                                         /\ c.freq \in {fp.started_auto_step * tuning.step_size, -fp.started_auto_step * tuning.step_size}}
                        /\ search.tried \subseteq Candidates
      OBVIOUS
    <2>1. FastEnd
      BY OnlyFastEnd
    <2>2. Fast(FastFrom) /\ Wrapped(FastFrom)
      BY <2>1 DEF FastEnd
    <2>3. FastInv(FastFrom, History)
      BY <2>2, FastFromInv
    <2>4. FastFrom \in Fp /\ fp \in Fp /\ TypeOK /\ StatusRead \in Fp
      BY StandFacts, TuningFacts DEF ZigzagInv
    <2>5. fp.state # Retune
      BY <2>2, StandFacts
    <2>6. fp.state # Tuned
      <3>1. fp.state = Tuned => FastFrom = Lost(StatusRead)
        BY <2>5 DEF FastFrom, AfterLoss
      <3>2. ~Lost(StatusRead).check_wrapped
        <4> HIDE DEF StatusRead
        <4> QED
          BY <2>4 DEF Lost, Fp
      <3> QED
        BY <2>2, <3>1, <3>2 DEF Wrapped
    <2>7. FastFrom = StatusRead /\ History = search
      BY <2>5, <2>6 DEF FastFrom, AfterLoss, History
    <2>8. StatusRead.state = fp.state /\ StatusRead.started_auto_step = fp.started_auto_step
      BY <2>4 DEF StatusRead, Fp
    <2>9. \A c \in Candidates : c \notin search.tried =>
            /\ fp.state = {"ZIGZAG_FAST"}
            /\ c.freq \in {fp.started_auto_step * tuning.step_size, -(fp.started_auto_step * tuning.step_size)}
      <3> HIDE DEF StatusRead, FastFrom
      <3> QED
        BY <2>2, <2>3, <2>4, <2>7, <2>8, Round DEF Resumed
    <2>10. -(fp.started_auto_step * tuning.step_size) = -fp.started_auto_step * tuning.step_size
      BY <2>4, TuningFacts, UIntAssumption DEF Fp
    <2>11. search.tried \subseteq Candidates
      BY <2>3, <2>7 DEF FastInv
    <2> QED
      BY <2>9, <2>10, <2>11
  <1>2. ZigzagInv /\ SearchInv /\ [Next]_vars => [Complete]_vars
    BY <1>1
  <1>3. [][Complete]_vars => FastTriesAll
    BY DEF FastTriesAll
  <1> QED
    BY <1>2, <1>3, SearchInvariant, PTL DEF Spec
=============================================================================
