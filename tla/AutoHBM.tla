------------------------------ MODULE AutoHBM ------------------------------
(***************************************************************************)
(* AutoHBMService.java: high brightness mode that follows the light        *)
(* sensor.  The main thread handles readings and screen broadcasts and     *)
(* cancels; the one worker thread of the executor waits, ramps the         *)
(* brightness and switches.  A wait or a ramp is interrupted by a cancel.  *)
(***************************************************************************)
EXTENDS Naturals, Sequences, SequencesExt

CONSTANTS
  MaxJobs,                 \* bound: jobs waiting when the screen is switched
  None

VARIABLES
  light,                   \* low (below the off threshold), mid or high
  reading,                 \* one is to be delivered
  listening,               \* mSensorEventListener is registered
  screenOn,
  created,                 \* the service is between onCreate and onDestroy
  quick,                   \* hbm_disable_time is below MIN_TOGGLE_INTERVAL_MS
  sensor,                  \* where onSensorChanged is: idle, read or act
  mLastLux,
  jobs,                    \* the queue of mExecutorService
  job,                     \* what AutoHBM-Worker runs
  mTransitionInProgress, mAutoHBMActive,
  mStoredBrightness,       \* the setting to be restored, or None
  hbm, brightness,         \* the sysfs node, and the setting: user or raised
  missed,                  \* history: a low reading had no effect
  late,                    \* history: a reading was handled with the screen off
  died                     \* history: the process died with the mode on

service == <<screenOn, created, quick>>
main == <<light, reading, service, sensor, mLastLux>>
panel == <<mTransitionInProgress, mAutoHBMActive, mStoredBrightness, hbm, brightness>>
history == <<missed, late, died>>
vars == <<main, listening, jobs, job, panel, history>>

idle == [fn |-> None]
Waits == {"enable", "disable"}

Init ==
  /\ light \in {"low", "high"} /\ reading = FALSE /\ listening = FALSE
  /\ screenOn = TRUE /\ created = TRUE
  /\ quick \in BOOLEAN
  /\ sensor = "idle" /\ mLastLux = "low"
  /\ jobs = <<"activate">> /\ job = idle
  /\ mTransitionInProgress = FALSE /\ mAutoHBMActive = FALSE
  /\ mStoredBrightness = None /\ hbm = FALSE /\ brightness = "user"
  /\ missed = FALSE /\ late = FALSE /\ died = FALSE
------------------------------------------------------------------------------
(* The light, and the main thread.                                         *)

\* an on-change sensor: one reading for each change
lightChanges(level) ==
  /\ level # light /\ light' = level
  /\ reading' = (reading \/ listening)
  /\ UNCHANGED <<listening, service, sensor, mLastLux, jobs, job, panel, history>>

pending(fn) == fn \in ToSet(jobs) \/ (job.fn = fn /\ ~job.cancelled)

\* the jobs of q but those of fns, in their order
without(q, fns) ==
  LET kept[n \in 0..Len(q)] ==
        IF n = 0 THEN <<>>
        ELSE IF q[n] \in fns THEN kept[n - 1] ELSE Append(kept[n - 1], q[n])
  IN kept[Len(q)]

\* cancel(true) of the futures of fns: a job that runs is interrupted
cancel(fns) ==
  /\ jobs' = without(jobs, fns)
  /\ job' = IF job.fn \in fns THEN [job EXCEPT !.cancelled = TRUE] ELSE job

cancelAndSubmit(fns, fn) ==
  /\ jobs' = Append(without(jobs, fns), fn)
  /\ job' = IF job.fn \in fns THEN [job EXCEPT !.cancelled = TRUE] ELSE job

\* mScreenStateReceiver
screenTurns ==
  /\ sensor = "idle" /\ Len(jobs) < MaxJobs
  /\ screenOn' = ~screenOn
  /\ IF ~created THEN UNCHANGED <<jobs, job>>
     ELSE IF screenOn THEN cancelAndSubmit(Waits, "deactivate")
     ELSE cancelAndSubmit({}, "activate")
  /\ UNCHANGED <<light, reading, listening, created, quick, sensor, mLastLux, panel, history>>

\* the executor takes no more jobs; the last one cleans up
onDestroy ==
  /\ created /\ sensor = "idle" /\ Len(jobs) < MaxJobs
  /\ created' = FALSE /\ cancelAndSubmit(Waits, "deactivate")
  /\ UNCHANGED <<light, reading, listening, screenOn, quick, sensor, mLastLux, panel, history>>

\* a new object: mAutoHBMActive is static, the stored brightness is not
onCreate ==
  /\ ~created /\ sensor = "idle" /\ jobs = <<>> /\ job = idle
  /\ created' = TRUE /\ jobs' = IF screenOn THEN <<"activate">> ELSE <<>>
  /\ mStoredBrightness' = None /\ mLastLux' = "low"
  /\ UNCHANGED <<light, reading, listening, screenOn, quick, sensor, job,
                 mTransitionInProgress, mAutoHBMActive, hbm, brightness, history>>

\* the process dies: the panel stays as it is, and what it was is forgotten
processDies ==
  /\ created /\ hbm /\ created' = FALSE
  /\ sensor' = "idle" /\ jobs' = <<>> /\ job' = idle
  /\ listening' = FALSE /\ reading' = FALSE
  /\ mTransitionInProgress' = FALSE /\ mAutoHBMActive' = FALSE
  /\ missed' = TRUE /\ died' = TRUE
  /\ UNCHANGED <<light, screenOn, quick, mLastLux, mStoredBrightness, hbm, brightness, late>>

onSensorChanged ==
  /\ sensor = "idle" /\ reading
  /\ sensor' = "read" /\ reading' = FALSE /\ mLastLux' = light
  /\ UNCHANGED <<light, listening, service, jobs, job, panel, history>>

\* the worker is past its last look at mLastLux
raising == job.fn = "enable" /\ job.step \in {"ramp", "end"}

\* a reading during a transition is dropped
readTransition ==
  /\ sensor = "read"
  /\ sensor' = IF mTransitionInProgress THEN "idle" ELSE "act"
  /\ missed' = (missed \/ (mTransitionInProgress /\ raising /\ mLastLux = "low"))
  /\ UNCHANGED <<light, reading, listening, service, mLastLux, jobs, job, panel,
                 late, died>>

\* refused: by the keyguard, DC dimming or the minimal interval of toggles
readHigh(refused) ==
  /\ sensor = "act" /\ mLastLux = "high" /\ sensor' = "idle"
  /\ IF (mAutoHBMActive /\ hbm) \/ refused \/ pending("enable") \/ ~created
     THEN cancel({"disable"}) /\ UNCHANGED late
     ELSE cancelAndSubmit({"disable"}, "enable") /\ late' = (late \/ ~screenOn)
  /\ UNCHANGED <<light, reading, listening, service, mLastLux, panel, missed, died>>

cancelOnLow == cancel({"enable"})
readLow ==
  /\ sensor = "act" /\ mLastLux = "low" /\ sensor' = "idle"
  /\ IF mAutoHBMActive /\ ~pending("disable") /\ created
     THEN cancelAndSubmit({"enable"}, "disable") ELSE cancelOnLow
  /\ missed' = ((missed /\ ~mAutoHBMActive) \/ (raising /\ ~mAutoHBMActive))
  /\ UNCHANGED <<light, reading, listening, service, mLastLux, panel, late, died>>

readMid ==
  /\ sensor = "act" /\ mLastLux = "mid" /\ sensor' = "idle"
  /\ cancel(Waits)
  /\ UNCHANGED <<light, reading, listening, service, mLastLux, panel, history>>
------------------------------------------------------------------------------
(* AutoHBM-Worker.                                                         *)

takes ==
  /\ job = idle /\ jobs # <<>> /\ jobs' = Tail(jobs)
  /\ job' = [fn |-> Head(jobs), step |-> "sleep", cancelled |-> FALSE]
  /\ UNCHANGED <<main, listening, panel, history>>

\* registering delivers the present light
activateLightSensorRead ==
  /\ job.fn = "activate" /\ job' = idle
  /\ reading' = (reading \/ ~listening) /\ listening' = TRUE
  /\ UNCHANGED <<light, service, sensor, mLastLux, jobs, panel, history>>

restores_SettingLeft == hbm' = FALSE /\ UNCHANGED <<brightness, mStoredBrightness>>
\* setHbmImmediate(false)
restores ==
  /\ hbm' = FALSE /\ mStoredBrightness' = None
  /\ brightness' = IF mStoredBrightness = None THEN brightness ELSE mStoredBrightness

deactivateLightSensorRead ==
  /\ job.fn = "deactivate" /\ job' = idle
  /\ listening' = FALSE /\ reading' = FALSE
  /\ mAutoHBMActive' = FALSE /\ restores
  /\ missed' = FALSE /\ late' = (late /\ "enable" \in ToSet(jobs))
  /\ UNCHANGED <<light, service, sensor, mLastLux, jobs, mTransitionInProgress, died>>

slept ==
  /\ job.fn \in Waits /\ job.step = "sleep"
  /\ job' = IF job.cancelled THEN idle ELSE [job EXCEPT !.step = "look"]
  /\ UNCHANGED <<main, listening, jobs, panel, history>>

\* refused: by the minimal interval of toggles, or by DC dimming
lookEnable(refused) ==
  /\ job.fn = "enable" /\ job.step = "look"
  /\ IF mLastLux = "high" /\ ~mAutoHBMActive /\ ~refused
     THEN /\ mTransitionInProgress' = TRUE /\ hbm' = TRUE
          /\ mStoredBrightness' = IF mStoredBrightness = None THEN brightness
                                  ELSE mStoredBrightness
          /\ job' = [job EXCEPT !.step = "ramp"]
     ELSE job' = idle /\ UNCHANGED <<mTransitionInProgress, hbm, mStoredBrightness>>
  /\ UNCHANGED <<main, listening, jobs, mAutoHBMActive, brightness, history>>

\* a wait shorter than the minimal interval may find it not yet over
lookDisable(refused) ==
  /\ job.fn = "disable" /\ job.step = "look" /\ (refused => quick)
  /\ IF mLastLux = "low" /\ mAutoHBMActive /\ ~refused
     THEN mTransitionInProgress' = TRUE /\ job' = [job EXCEPT !.step = "ramp"]
     ELSE job' = idle /\ UNCHANGED mTransitionInProgress
  /\ missed' = (missed \/ (refused /\ mLastLux = "low" /\ mAutoHBMActive))
  /\ UNCHANGED <<main, listening, jobs, mAutoHBMActive, mStoredBrightness, hbm, brightness,
                 late, died>>

\* an interrupt is met by a sleep, and undoes the transition, or by the test
\* before it, and ends the ramp without a word
rampedUp(undone) ==
  /\ job.fn = "enable" /\ job.step = "ramp" /\ (undone => job.cancelled)
  /\ IF undone THEN restores
     ELSE /\ brightness' \in (IF job.cancelled THEN {brightness, "raised"} ELSE {"raised"})
          /\ UNCHANGED <<mStoredBrightness, hbm>>
  /\ mTransitionInProgress' = FALSE /\ job' = [job EXCEPT !.step = "end"]
  /\ UNCHANGED <<main, listening, jobs, mAutoHBMActive, history>>

\* also when interrupted: with or without an exception, the mode is off
rampedDown ==
  /\ job.fn = "disable" /\ job.step = "ramp"
  /\ restores
  /\ mTransitionInProgress' = FALSE /\ job' = [job EXCEPT !.step = "end"]
  /\ UNCHANGED <<main, listening, jobs, mAutoHBMActive, history>>

\* isCurrentlyEnabled() decides
ended ==
  /\ job.fn \in Waits /\ job.step = "end" /\ job' = idle
  /\ mAutoHBMActive' = IF job.fn = "enable" THEN mAutoHBMActive \/ hbm
                       ELSE mAutoHBMActive /\ hbm
  /\ UNCHANGED <<main, listening, jobs, mTransitionInProgress, mStoredBrightness, hbm,
                 brightness, history>>

Worker ==
  \/ takes \/ activateLightSensorRead \/ deactivateLightSensorRead \/ slept
  \/ \E refused \in BOOLEAN : lookEnable(refused) \/ lookDisable(refused)
  \/ \E undone \in BOOLEAN : rampedUp(undone)
  \/ rampedDown \/ ended
Sensor ==
  \/ onSensorChanged \/ readTransition \/ readLow \/ readMid
  \/ \E refused \in BOOLEAN : readHigh(refused)
------------------------------------------------------------------------------
Next ==
  \/ \E level \in {"low", "mid", "high"} : lightChanges(level)
  \/ screenTurns \/ onDestroy \/ onCreate \/ processDies \/ Sensor \/ Worker

Spec == Init /\ [][Next]_vars
------------------------------------------------------------------------------
(* Properties. *)

atRest == sensor = "idle" /\ ~reading /\ jobs = <<>> /\ job = idle

\* When all is done, the mode is on only in a light not low and with the screen
\* on, it is known to be on, and while it is off the user's own brightness is
\* set: unless a low reading was lost on a transition, a reading was handled
\* after the screen had been switched off, or the process died.
LightFollowed ==
  atRest =>
    /\ hbm => (light # "low" \/ ~listening \/ missed)
    /\ hbm => ((screenOn /\ created) \/ late \/ missed)
    /\ hbm = mAutoHBMActive \/ missed
    /\ ~hbm => (mStoredBrightness = None /\ brightness = "user") \/ died
=============================================================================
