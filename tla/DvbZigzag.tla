----------------------------- MODULE DvbZigzag ------------------------------
(***************************************************************************)
(* The software tuning loop of dvb_frontend.c: dvb_frontend_swzigzag and   *)
(* dvb_frontend_swzigzag_autotune, which the frontend thread runs again    *)
(* and again, and the ioctls that steer it.  Thread and ioctls exclude     *)
(* each other (fepriv->sem, see DvbFrontend), so each is one step here.    *)
(*                                                                         *)
(* Frequencies are offsets from the one asked for; a setting of the        *)
(* hardware is an offset and an inversion, and the signal is found at one  *)
(* setting or at none.  Of a status only FE_HAS_LOCK is kept.  How long    *)
(* the thread sleeps (delay, quality) is left out.                         *)
(***************************************************************************)
EXTENDS Integers, FiniteSets

CONSTANTS Tunings,      \* the settings of a tune: [step_size, max_drift]
          UIntMod,      \* unsigned int is modulo this
          MaxCommands,  \* bound: ioctls
          MaxChanges,   \* bound: changes of the signal
          MaxErrors     \* bound: failures of set_frontend

ASSUME TuningAssumption ==
  \A t \in Tunings : t.step_size \in Nat /\ t.max_drift \in Nat
                     /\ (t.step_size > 0 => UIntMod * t.step_size > t.max_drift)
ASSUME UIntAssumption == UIntMod \in Nat \ {0}
ASSUME BoundAssumption == MaxCommands \in Nat /\ MaxChanges \in Nat /\ MaxErrors \in Nat

VARIABLES
  caps,       \* fe->ops.info.caps: [auto: FE_CAN_INVERSION_AUTO, recover: FE_CAN_RECOVER]
  tuning,     \* step_size and max_drift
  fp,         \* the rest of fepriv
  prm,        \* fepriv->parameters_in
  hw,         \* hardware: the parameters last set
  signal,     \* environment: where the signal asked for is, or NoSignal
  stale,      \* environment: there is a lock on what was tuned for an earlier request
  commands, changes, errors,
  search,     \* history of the search in progress: settings tried, and how often any was
  asked,      \* history: the number of the last tune request that was accepted
  dropped,    \* history: a command has kept this request from being tuned to
  failed,     \* history: set_frontend failed since
  turns       \* history: turns of the thread since it could have found the signal

history == <<asked, dropped, failed>>
vars == <<caps, tuning, fp, prm, hw, signal, stale, commands, changes, errors, search, asked, dropped, failed, turns>>

Inversions == {"off", "on"}

\* Bound: a longer search is not told from one as long.
MaxTries == 4 * UIntMod + 1
Least(a, b) == IF a < b THEN a ELSE b
NewSearch == [tried |-> {}, tries |-> 0]
NoSignal == [freq |-> 0, inversion |-> "none"]

\* FESTATE_*: a state is a set of flags.
Idle == {"IDLE"}
Retune == {"RETUNE"}
Tuned == {"TUNED"}
Diseqc == {"DISEQC"}
Error == {"ERROR"}
SearchingFast == {"TUNING_FAST", "ZIGZAG_FAST"}
SearchingSlow == {"TUNING_SLOW", "ZIGZAG_SLOW"}
LostLock == {"ZIGZAG_FAST", "ZIGZAG_SLOW"}
WaitForLock == SearchingFast \cup SearchingSlow \cup Diseqc
States == {Idle, Retune, {"TUNING_FAST"}, SearchingSlow, Tuned, {"ZIGZAG_FAST"}, Diseqc, Error}
Has(state, flags) == state \cap flags # {}

HasLock ==
  IF hw.asked # asked THEN stale
  ELSE /\ signal # NoSignal /\ hw.freq = signal.freq
       /\ hw.inversion \in {signal.inversion, "auto"}

\* Autoinversion is up to the software.
AutoInversion == ~caps.auto /\ prm.inversion = "auto"

\* What a search is to try: every multiple of the step up to the maximum drift on
\* either side, with both inversions if the right one is not known.
Candidates ==
  LET drifts == {k * tuning.step_size : k \in -tuning.max_drift .. tuning.max_drift}
      inversions == IF AutoInversion THEN Inversions ELSE {prm.inversion}
  IN  [freq : {d \in drifts : -tuning.max_drift <= d /\ d <= tuning.max_drift}, inversion : inversions]

\* Types; the states that the loop can be in, of all combinations of flags.
TypeOK ==
  /\ tuning \in Tunings \cup {[step_size |-> 0, max_drift |-> 0]}
  /\ fp \in [state : States, status : BOOLEAN, oneshot : BOOLEAN, inversion : Inversions,
             auto_step : 0 .. UIntMod - 1, auto_sub_step : 0 .. 4,
             started_auto_step : 0 .. UIntMod - 1, check_wrapped : BOOLEAN]
  /\ prm \in [freq : Int, inversion : Inversions \cup {"auto"}, asked : -1 .. MaxCommands]
  /\ hw \in [freq : Int, inversion : Inversions \cup {"auto"}, asked : -1 .. MaxCommands]

Init ==
  /\ caps \in [auto : BOOLEAN, recover : BOOLEAN]
  /\ tuning = [step_size |-> 0, max_drift |-> 0]
  /\ fp = [state |-> Idle, status |-> FALSE, oneshot |-> FALSE, inversion |-> "off",
           auto_step |-> 0, auto_sub_step |-> 0, started_auto_step |-> 0, check_wrapped |-> FALSE]
  /\ prm = [freq |-> 0, inversion |-> "off", asked |-> 0] /\ hw = prm
  /\ signal = NoSignal /\ stale = FALSE
  /\ commands = 0 /\ changes = 0 /\ errors \in 0 .. MaxErrors
  /\ search = NewSearch /\ asked = 0 /\ dropped = FALSE /\ failed = FALSE /\ turns = 0

\* The thread does more than idle.
Runs == fp.state # Idle /\ ~fp.oneshot

Quiet == commands = MaxCommands /\ changes = MaxChanges /\ errors = MaxErrors

\* The signal is at one of the settings that a search tries.
Findable ==
  /\ signal # NoSignal /\ prm.asked = asked
  /\ \E c \in Candidates : prm.freq + c.freq = signal.freq /\ c.inversion \in {signal.inversion, "auto"}

\* The search goes on by itself from here and has something to find.
Seeking ==
  /\ Quiet /\ Findable /\ ~(caps.recover /\ tuning.max_drift = 0)
  /\ Runs /\ Has(fp.state, Retune \cup SearchingFast \cup SearchingSlow)

Count == turns' = IF Seeking THEN turns + 1 ELSE 0

-----------------------------------------------------------------------------
(* dvb_frontend_swzigzag_autotune.                                         *)

Flip(inversion) == IF inversion = "off" THEN "on" ELSE "off"

\* auto_step is wrapped if it exceeds the maximum drift.
InRange(step) == IF step * tuning.step_size > tuning.max_drift THEN 0 ELSE step

\* Mutant: the other side is not tried with the other inversion.
ReadyOnce(step, sub) ==
  \/ sub = 0
  \/ sub = 1 /\ AutoInversion
  \/ sub = 2 /\ step * tuning.step_size # 0

\* Sub-steps: the drift as it is (0), with the other inversion (1), the other side (2),
\* and that with the inversion changed back (3).
Ready(step, sub) ==
  \/ sub = 0
  \/ sub = 1 /\ AutoInversion
  \/ sub = 2 /\ step * tuning.step_size # 0
  \/ sub = 3 /\ step * tuning.step_size # 0 /\ AutoInversion

\* while (!ready): the next sub-step that makes sense, or the next step.
NextSetting(f) ==
  LET step == InRange(f.auto_step)
      subs == {k \in (IF step = f.auto_step THEN f.auto_sub_step ELSE 0) .. 3 : Ready(step, k)}
      at == IF subs # {} THEN [step |-> step, sub |-> CHOOSE k \in subs : \A j \in subs : k <= j]
            ELSE [step |-> InRange((step + 1) % UIntMod), sub |-> 0]
      drift == at.step * tuning.step_size
  IN  [step |-> at.step, sub |-> at.sub,
       drift |-> IF at.sub \in {2, 3} THEN -drift ELSE drift,
       inversion |-> IF at.sub \in {1, 3} THEN Flip(f.inversion) ELSE f.inversion]

\* fepriv when the setting y has been reached: auto_sub_step is advanced after a tune.
Reached(f, y, advance) ==
  [f EXCEPT !.auto_step = y.step, !.auto_sub_step = y.sub + advance, !.inversion = y.inversion]

\* A complete iteration: back where the search started.
Wrapped(f) ==
  LET y == NextSetting(f) IN f.check_wrapped /\ y.step = f.started_auto_step /\ y.sub = 0

\* The setting is handed to set_frontend; parameters_in is put back afterwards, but
\* not when set_frontend fails.
Setting(f) ==
  LET y == NextSetting(f)
  IN  [freq |-> y.drift, inversion |-> IF AutoInversion THEN y.inversion ELSE prm.inversion]

\* Mutant: the frequency is not put back.
TuneKeeps(f) ==
  LET y == NextSetting(f)
      p == [prm EXCEPT !.freq = @ + Setting(f).freq, !.inversion = Setting(f).inversion] IN
  /\ \/ /\ hw' = p
        /\ fp' = [Reached(f, y, 1) EXCEPT !.state = IF @ = Retune THEN {"TUNING_FAST"} ELSE @, !.check_wrapped = TRUE]
        /\ prm' = [prm EXCEPT !.freq = p.freq] /\ UNCHANGED <<errors, failed>>
     \/ /\ errors < MaxErrors /\ errors' = errors + 1 /\ failed' = TRUE
        /\ fp' = [Reached(f, y, 0) EXCEPT !.state = Error]
        /\ prm' = p /\ hw' \in {p, hw}

\* A set_frontend that fails may have tuned the hardware or left it, and its lock, as
\* it was.
Tune(f) ==
  LET y == NextSetting(f)
      p == [prm EXCEPT !.freq = @ + Setting(f).freq, !.inversion = Setting(f).inversion] IN
  /\ \/ /\ hw' = p
        /\ fp' = [Reached(f, y, 1) EXCEPT !.state = IF @ = Retune THEN {"TUNING_FAST"} ELSE @, !.check_wrapped = TRUE]
        /\ UNCHANGED <<prm, errors, failed>>
     \/ /\ errors < MaxErrors /\ errors' = errors + 1 /\ failed' = TRUE
        /\ fp' = [Reached(f, y, 0) EXCEPT !.state = Error]
        /\ prm' = p /\ hw' \in {p, hw}

-----------------------------------------------------------------------------
(* dvb_frontend_swzigzag, called by the thread.  In the IDLE state, and in  *)
(* ONESHOT mode when no retune was asked for, it does nothing.              *)

\* ONESHOT: set the frontend when asked and leave it alone.
OneShot ==
  /\ fp.oneshot /\ fp.state = Retune
  /\ \/ hw' = prm /\ fp' = [fp EXCEPT !.state = Tuned] /\ UNCHANGED <<errors, failed>>
     \/ /\ errors < MaxErrors /\ errors' = errors + 1 /\ failed' = TRUE
        /\ fp' = [fp EXCEPT !.state = Error] /\ hw' \in {prm, hw}
  /\ Count
  /\ UNCHANGED <<caps, tuning, prm, signal, stale, commands, changes, search, asked, dropped>>

\* The status is read, except before the first tune of a request.
Lock == fp.state # Retune /\ HasLock
StatusRead == [fp EXCEPT !.status = IF fp.state = Retune THEN @ ELSE HasLock]

\* Lock found: TUNED, and the right inversion is known.
FoundLock ==
  /\ Runs /\ Has(fp.state, WaitForLock) /\ Lock
  /\ fp' = [StatusRead EXCEPT !.state = Tuned]
  /\ prm' = IF AutoInversion THEN [prm EXCEPT !.inversion = fp.inversion] ELSE prm
  /\ Count
  /\ UNCHANGED <<caps, tuning, hw, signal, stale, commands, changes, errors, search, history>>

\* Tuned and the lock still good, or in the ERROR state.
Watch ==
  /\ Runs /\ ((fp.state = Tuned /\ Lock) \/ fp.state = Error)
  /\ fp' = StatusRead
  /\ Count
  /\ UNCHANGED <<caps, tuning, prm, hw, signal, stale, commands, changes, errors, search, history>>

\* The lock is lost: a fast zigzag from the step where it was.
Lost(f) == [f EXCEPT !.state = {"ZIGZAG_FAST"}, !.started_auto_step = f.auto_step, !.check_wrapped = FALSE]

\* Mutant: the search after a loss of lock is ended by the wrap of the one before.
AfterLossWrapped ==
  IF fp.state = Tuned THEN [StatusRead EXCEPT !.state = {"ZIGZAG_FAST"}, !.started_auto_step = fp.auto_step]
  ELSE StatusRead

AfterLoss == IF fp.state = Tuned THEN Lost(StatusRead) ELSE StatusRead

\* Hardware that recovers from a loss of lock by itself is left alone.
Recovers(f) == Has(f.state, LostLock) /\ caps.recover /\ tuning.max_drift = 0

\* Waiting without a lock: for such hardware, or in the DISEQC state for a dish to turn.
Wait ==
  LET f == AfterLoss IN
  /\ Runs /\ ~Lock
  /\ Recovers(f) \/ f.state = Diseqc
  /\ fp' = f
  /\ search' = IF fp.state = Tuned THEN NewSearch ELSE search
  /\ Count
  /\ UNCHANGED <<caps, tuning, prm, hw, signal, stale, commands, changes, errors, history>>

\* Mutant: where the search before had started still counts.
FastFromStarted ==
  IF fp.state = Retune
    THEN [fp EXCEPT !.auto_step = 0, !.auto_sub_step = 0, !.check_wrapped = FALSE]
    ELSE AfterLoss

\* Where a fast search stands: a retune begins at the frequency asked for.
FastFrom ==
  IF fp.state = Retune
    THEN [fp EXCEPT !.auto_step = 0, !.auto_sub_step = 0, !.started_auto_step = 0, !.check_wrapped = FALSE]
    ELSE AfterLoss

Fast(f) == Runs /\ ~Lock /\ ~Recovers(f) /\ (Has(f.state, SearchingFast) \/ f.state = Retune)

\* The next setting of the fast zigzag.
FastTune ==
  LET f == FastFrom IN
  /\ Fast(f) /\ ~Wrapped(f)
  /\ Tune(f)
  /\ search' = LET h == IF fp.state \in {Retune, Tuned} THEN NewSearch ELSE search
               IN  [tried |-> h.tried \cup {Setting(f)}, tries |-> Least(h.tries + 1, MaxTries)]
  /\ Count
  /\ UNCHANGED <<caps, tuning, signal, stale, commands, changes, asked, dropped>>

\* All have been tried: slow from now on.
FastEnd ==
  LET f == FastFrom IN
  /\ Fast(f) /\ Wrapped(f)
  /\ fp' = [Reached(f, NextSetting(f), 0) EXCEPT !.state = SearchingSlow, !.started_auto_step = NextSetting(f).step]
  /\ Count
  /\ UNCHANGED <<caps, tuning, prm, hw, signal, stale, commands, changes, errors, search, history>>

\* The slow zigzag tries setting after setting until there is a lock.
SlowTune ==
  /\ Runs /\ ~Lock /\ Has(fp.state, SearchingSlow) /\ ~Recovers(fp)
  /\ Tune(StatusRead)
  /\ Count
  /\ UNCHANGED <<caps, tuning, search, signal, stale, commands, changes, asked, dropped>>

Thread == OneShot \/ FoundLock \/ Watch \/ Wait \/ FastTune \/ FastEnd \/ SlowTune

-----------------------------------------------------------------------------
(* The ioctls.                                                             *)

Command == commands < MaxCommands /\ commands' = commands + 1

Signals == [freq : {k * tuning.step_size : k \in -1 .. 1}, inversion : Inversions] \cup {NoSignal}

\* Mutant: the status of the tuning before is kept.
SetFrontendStatus(t, inversion) ==
  /\ Command
  /\ tuning' = t
  /\ prm' = [freq |-> 0, inversion |-> inversion, asked |-> asked + 1]
  /\ fp' = [fp EXCEPT !.state = Retune]
  /\ asked' = asked + 1 /\ dropped' = FALSE /\ failed' = FALSE
  /\ stale' = HasLock /\ signal' = NoSignal
  /\ Count
  /\ UNCHANGED <<caps, hw, changes, errors, search>>

\* FE_SET_FRONTEND, or FE_SET_PROPERTY with DTV_TUNE.  Where the signal is for the new
\* request is as yet unknown; the hardware may still have the old one.
SetFrontend(t, inversion) ==
  /\ Command
  /\ tuning' = t
  /\ prm' = [freq |-> 0, inversion |-> inversion, asked |-> asked + 1]
  /\ fp' = [fp EXCEPT !.state = Retune, !.status = FALSE]
  /\ asked' = asked + 1 /\ dropped' = FALSE /\ failed' = FALSE
  /\ stale' = HasLock /\ signal' = NoSignal
  /\ Count
  /\ UNCHANGED <<caps, hw, changes, errors, search>>

\* FE_SET_PROPERTY with DTV_TUNE that dvb_frontend_check_parameters refuses: by then
\* parameters_in is overwritten.
RejectTune(inversion) ==
  /\ Command
  /\ prm' = [freq |-> 0, inversion |-> inversion, asked |-> -1]
  /\ dropped' = TRUE
  /\ Count
  /\ UNCHANGED <<caps, tuning, fp, hw, signal, stale, changes, errors, search, asked, failed>>

\* FE_SET_VOLTAGE, FE_SET_TONE, FE_DISEQC_*.
DiseqcCommand ==
  /\ Command
  /\ fp' = [fp EXCEPT !.state = Diseqc, !.status = FALSE]
  /\ dropped' = (dropped \/ fp.state \in {Retune, Error})
  /\ Count
  /\ UNCHANGED <<caps, tuning, prm, hw, signal, stale, changes, errors, search, asked, failed>>

SetTuneMode(oneshot) ==
  /\ Command
  /\ fp' = [fp EXCEPT !.oneshot = oneshot]
  /\ Count
  /\ UNCHANGED <<caps, tuning, prm, hw, signal, stale, changes, errors, search, history>>

\* Closed and opened for writing again; restart: the thread had stopped in between.
Reopen(restart) ==
  /\ Command
  /\ fp' = IF restart
             THEN [fp EXCEPT !.oneshot = FALSE, !.state = Idle, !.status = FALSE, !.check_wrapped = FALSE]
             ELSE [fp EXCEPT !.oneshot = FALSE]
  /\ dropped' = (dropped \/ (restart /\ fp.state \in {Retune, Error}))
  /\ Count
  /\ UNCHANGED <<caps, tuning, prm, hw, signal, stale, changes, errors, search, asked, failed>>

\* The signal comes, goes or moves.
SignalChange ==
  /\ changes < MaxChanges /\ changes' = changes + 1
  /\ \/ signal' \in Signals \ {signal} /\ UNCHANGED stale
     \/ hw.asked # asked /\ stale' = ~stale /\ UNCHANGED signal
  /\ Count
  /\ UNCHANGED <<caps, tuning, fp, prm, hw, commands, errors, search, history>>

Next ==
  \/ Thread
  \/ \E t \in Tunings, inversion \in Inversions \cup {"auto"} : SetFrontend(t, inversion)
  \/ \E inversion \in Inversions \cup {"auto"} : RejectTune(inversion)
  \/ DiseqcCommand
  \/ \E oneshot \in BOOLEAN : SetTuneMode(oneshot)
  \/ \E restart \in BOOLEAN : Reopen(restart)
  \/ SignalChange

Spec == Init /\ [][Next]_vars

-----------------------------------------------------------------------------
\* The fast zigzag is given up when every setting has been tried, not earlier, and it
\* tries no other.  After a loss of lock it starts in the middle of those at the last
\* drift and need not have tried them all.
FastTriesAll ==
  [][ fp'.state = SearchingSlow /\ fp.state # SearchingSlow /\ prm.asked = asked =>
        /\ {c \in Candidates : c \notin search.tried}
             \subseteq {c \in Candidates : fp.state = {"ZIGZAG_FAST"}
                                         /\ c.freq \in {fp.started_auto_step * tuning.step_size, -fp.started_auto_step * tuning.step_size}}
        /\ search.tried \subseteq Candidates ]_vars

\* And it is given up then: it tries no setting twice.  Not so if there are no steps to
\* make (auto_step has to overflow first).  After a loss of lock, auto_step may be from
\* an earlier tuning with more steps, when the last one was done in ONESHOT mode or its
\* RETUNE was dropped: then started_auto_step is never met again.
FastEnds ==
  /\ Has(fp.state, SearchingFast) /\ tuning.step_size > 0 /\ prm.asked = asked
  /\ fp.state = {"ZIGZAG_FAST"} => InRange(fp.started_auto_step) = fp.started_auto_step
  => search.tries <= Cardinality(Candidates)

\* The hardware is never tuned further away than max_drift from the frequency asked
\* for, however often the search starts again: every attempt puts parameters_in back.
\* A failed attempt does not.  The state is always one that swzigzag knows (TypeOK).
WithinDrift ==
  /\ TypeOK
  /\ hw.asked = asked /\ ~failed => -tuning.max_drift <= hw.freq /\ hw.freq <= tuning.max_drift

\* FE_READ_STATUS ("prevent that user get signal state from previous tuning") and the
\* status in an event never show the lock on an earlier request, unless a later command
\* has put its own state in the place of RETUNE or ERROR.  Not so an event of the ERROR
\* state: swzigzag reads the status there, of hardware that set_frontend may have left
\* as it was.
StatusCurrent ==
  LET shown == fp.state \notin {Retune, Error} /\ HasLock
  IN  (shown \/ (fp.status /\ fp.state # Error)) /\ asked > 0 /\ ~dropped => hw.asked = asked

\* A search ends with a lock if there is a signal to be found, from wherever it stands
\* when signal and user leave it alone, before it has come round once; hardware that is
\* left to recover excepted.
FindsSignal == Seeking => turns <= Cardinality(Candidates) + 1
=============================================================================
