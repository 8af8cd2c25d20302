-------------------------------- MODULE Xtra --------------------------------
(***************************************************************************)
(* The XTRA daemon and the corrections of DGNSS:                           *)
(* gps/gnss/XtraSystemStatusObserver.cpp tells the daemon what it needs to *)
(* know and which NTRIP source to run, over a local socket; GnssAdapter.cpp *)
(* decides when the source runs.  A daemon that is restarted asks for the  *)
(* state again.  All of it runs on the message task, but for the consent.  *)
(***************************************************************************)
EXTENDS Integers, Sequences

CONSTANTS
  StatusItem,              \* what respondStatus tells: gpslock, connection...
  Params,                  \* NTRIP parameters: [id, requiresNmeaLocation]
  MaxPosted,               \* bound: messages for the task or the daemon
                           \* waiting when more happens
  None

VARIABLES
  posted,                  \* messages for the task of the adapter
  mDgnssState,             \* a set of enabled, noNmeaPending and started
  ntripParams,             \* of mStartDgnssNtripParams
  mSendNmeaConsent,
  inSession,               \* there is a time-based session
  startPending,            \* its call has not been answered
  values,                  \* what the adapter knows of the items
  throttle,                \* mXtraThrottle
  mReqStatusReceived,
  mNtripParamsString,      \* the source to be restarted
  sent,                    \* datagrams for the daemon
  daemon,                  \* what it knows, and the source it runs
  halinit,                 \* mDelayLocTimer is to expire
  \* history: positions were reported since the source was wanted; a source was
  \* replaced but not stopped; the consent changed while one was waited for
  gga, leftover, muted

adapter == <<mDgnssState, ntripParams, mSendNmeaConsent, inSession, startPending>>
known == <<values, throttle, mReqStatusReceived, mNtripParamsString>>
xtraHistory == <<gga, leftover, muted>>
vars == <<posted, adapter, known, sent, daemon, halinit, xtraHistory>>

down == [up |-> FALSE, asked |-> FALSE, knows |-> [i \in StatusItem |-> None], source |-> None]

Init ==
  /\ posted = <<>>
  /\ mDgnssState = {} /\ ntripParams = None /\ mSendNmeaConsent = FALSE
  /\ inSession = FALSE /\ startPending = FALSE
  /\ values = [i \in StatusItem |-> None] /\ throttle = TRUE
  /\ mReqStatusReceived = FALSE /\ mNtripParamsString = None
  /\ sent = <<>> /\ daemon = down /\ halinit = TRUE
  /\ gga = FALSE /\ leftover = FALSE /\ muted = FALSE
------------------------------------------------------------------------------
(* The daemon.                                                             *)

calm == Len(posted) < MaxPosted /\ Len(sent) < MaxPosted
post(message) == calm /\ posted' = Append(posted, message)

\* it binds its socket and asks for the state
daemonStarts ==
  /\ ~daemon.up /\ post([fn |-> "requestStatus", updated |-> FALSE])
  /\ daemon' = [down EXCEPT !.up = TRUE, !.asked = TRUE]
  /\ UNCHANGED <<adapter, known, sent, halinit, xtraHistory>>

daemonDies ==
  /\ calm /\ daemon.up /\ daemon' = down /\ sent' = <<>>
  /\ UNCHANGED <<posted, adapter, known, halinit, xtraHistory>>

\* it may also ask when it has the state
daemonAsks ==
  /\ daemon.up /\ daemon.asked /\ \A i \in StatusItem : daemon.knows[i] # None
  /\ post([fn |-> "requestStatus", updated |-> TRUE])
  /\ UNCHANGED <<adapter, known, sent, daemon, halinit, xtraHistory>>

daemonReads ==
  LET d == Head(sent)
  IN /\ sent # <<>> /\ sent' = Tail(sent)
     /\ CASE d.fn = "update" -> daemon' = [daemon EXCEPT !.knows[d.item] = d.value]
          [] d.fn = "respondStatus" -> daemon' = [daemon EXCEPT !.knows = d.values]
          [] d.fn = "startDgnssSource" -> daemon' = [daemon EXCEPT !.source = d.params]
          [] d.fn = "stopDgnssSource" -> daemon' = [daemon EXCEPT !.source = None]
          [] OTHER -> UNCHANGED daemon
     /\ posted' = IF d.fn = "halinit"
                  THEN Append(posted, [fn |-> "requestStatus", updated |-> FALSE]) ELSE posted
     /\ UNCHANGED <<adapter, known, halinit, xtraHistory>>
------------------------------------------------------------------------------
(* XtraSystemStatusObserver.                                               *)

\* LocIpc::send(): lost when nobody has bound the socket
after(datagrams) == IF daemon.up THEN sent \o datagrams ELSE sent

timeOutCallback ==
  /\ halinit /\ halinit' = FALSE /\ sent' = after(<<[fn |-> "halinit"]>>)
  /\ UNCHANGED <<posted, adapter, known, daemon, xtraHistory>>

\* updateLockStatus, updateConnections, updateTac and updateMccMnc, from the
\* data items or a lock command
update(item, value) ==
  /\ calm /\ value # values[item]
  /\ values' = [values EXCEPT ![item] = value]
  /\ sent' = IF mReqStatusReceived
             THEN after(<<[fn |-> "update", item |-> item, value |-> value]>>) ELSE sent
  /\ UNCHANGED <<posted, adapter, throttle, mReqStatusReceived, mNtripParamsString, daemon,
                 halinit, xtraHistory>>

\* the response to a request does not tell it
updateXtraThrottle ==
  /\ calm /\ throttle' = ~throttle
  /\ sent' = IF mReqStatusReceived THEN after(<<[fn |-> "xtrathrottle", value |-> throttle']>>)
             ELSE sent
  /\ UNCHANGED <<posted, adapter, values, mReqStatusReceived, mNtripParamsString, daemon,
                 halinit, xtraHistory>>

receive(fn) == posted # <<>> /\ Head(posted).fn = fn /\ posted' = Tail(posted)

\* onStatusRequested() and restartDgnssSource()
HandleStatusRequest ==
  LET respond == IF Head(posted).updated THEN <<>>
                 ELSE <<[fn |-> "respondStatus", values |-> values]>>
      restart == IF mNtripParamsString = None THEN <<>>
                 ELSE <<[fn |-> "startDgnssSource", params |-> mNtripParamsString]>>
  IN /\ receive("requestStatus")
     /\ mReqStatusReceived' = TRUE /\ sent' = after(respond \o restart)
     /\ UNCHANGED <<adapter, values, throttle, mNtripParamsString, daemon, halinit, xtraHistory>>
------------------------------------------------------------------------------
(* The DGNSS source, in GnssAdapter.                                       *)

required(params) == mSendNmeaConsent /\ params # None /\ params.requiresNmeaLocation
isDgnssNmeaRequired == required(ntripParams)

\* checkUpdateDgnssNtrip(); the ten minutes between two positions sent to the
\* server are left to chance, and what the daemon makes of them with them
starts(state) == inSession /\ state = {"enabled", "noNmeaPending"}
checkUpdateDgnssNtrip(state, params) ==
  IF starts(state)
  THEN /\ mDgnssState' = state \cup {"started"} /\ mNtripParamsString' = params
       /\ sent' = after(<<[fn |-> "startDgnssSource", params |-> params]>>)
  ELSE /\ mDgnssState' = state /\ UNCHANGED mNtripParamsString
       /\ sent' \in {sent} \cup (IF inSession /\ "started" \in state /\ required(params)
                                 THEN {after(<<[fn |-> "updateDgnssServerNmea"]>>)} ELSE {})

stopDgnssSource_Kept ==
  UNCHANGED mNtripParamsString /\ sent' = after(<<[fn |-> "stopDgnssSource"]>>)
stopDgnssSource ==
  mNtripParamsString' = None /\ sent' = after(<<[fn |-> "stopDgnssSource"]>>)
stopDgnssNtrip(state) ==
  /\ mDgnssState' = state \ {"started"}
  /\ IF "started" \in state THEN stopDgnssSource ELSE UNCHANGED <<mNtripParamsString, sent>>

enablePPENtripStreamCommand(params) ==
  /\ post([fn |-> "enable", params |-> params])
  /\ UNCHANGED <<adapter, known, sent, daemon, halinit, xtraHistory>>
disablePPENtripStreamCommand ==
  /\ post([fn |-> "disable"])
  /\ UNCHANGED <<adapter, known, sent, daemon, halinit, xtraHistory>>

\* on the thread of the caller
updateNTRIPGGAConsentCommand ==
  /\ mSendNmeaConsent' = ~mSendNmeaConsent
  /\ muted' = (muted \/ (mSendNmeaConsent /\ "noNmeaPending" \notin mDgnssState))
  /\ UNCHANGED <<posted, mDgnssState, ntripParams, inSession, startPending, known, sent,
                 daemon, halinit, gga, leftover>>

\* new parameters: a source that runs is forgotten, not stopped
handleEnablePPENtrip ==
  LET params == Head(posted).params
  IN /\ receive("enable")
     /\ IF params = ntripParams /\ "enabled" \in mDgnssState
        THEN UNCHANGED <<mDgnssState, ntripParams, mNtripParamsString, sent, xtraHistory>>
        ELSE /\ ntripParams' = params /\ gga' = FALSE /\ muted' = FALSE
             /\ IF required(params)
                THEN mDgnssState' = {"enabled"} /\ UNCHANGED <<mNtripParamsString, sent>>
                ELSE checkUpdateDgnssNtrip({"enabled", "noNmeaPending"}, params)
             /\ leftover' = ((leftover \/ "started" \in mDgnssState)
                             /\ "started" \notin mDgnssState')
     /\ UNCHANGED <<mSendNmeaConsent, inSession, startPending, values, throttle,
                    mReqStatusReceived, daemon, halinit>>

handleDisablePPENtrip ==
  /\ receive("disable") /\ gga' = FALSE /\ muted' = FALSE
  /\ stopDgnssNtrip((mDgnssState \ {"enabled"}) \cup {"noNmeaPending"})
  /\ leftover' = (leftover /\ "started" \notin mDgnssState)
  /\ UNCHANGED <<ntripParams, mSendNmeaConsent, inSession, startPending, values, throttle,
                 mReqStatusReceived, daemon, halinit>>

\* the first time-based session is saved and its fix started
sessionStarts ==
  /\ calm /\ ~inSession /\ ~startPending
  /\ inSession' = TRUE /\ startPending' = TRUE /\ gga' = FALSE
  /\ UNCHANGED <<posted, mDgnssState, ntripParams, mSendNmeaConsent, known, sent, daemon,
                 halinit, leftover, muted>>

\* the answer of the engine; the session may have been stopped by then
startAnswered(failed) ==
  /\ startPending /\ startPending' = FALSE
  /\ inSession' = (inSession /\ ~failed)
  /\ IF failed THEN UNCHANGED <<mDgnssState, mNtripParamsString, sent>>
     ELSE checkUpdateDgnssNtrip(mDgnssState, ntripParams)
  /\ leftover' = IF failed THEN leftover \/ (inSession /\ "started" \in mDgnssState)
                 ELSE leftover /\ ~starts(mDgnssState)
  /\ UNCHANGED <<posted, ntripParams, mSendNmeaConsent, values, throttle, mReqStatusReceived,
                 daemon, halinit, gga, muted>>

\* stopTracking() of the last session
sessionStops ==
  /\ calm /\ inSession /\ inSession' = FALSE /\ gga' = FALSE
  /\ stopDgnssNtrip(IF isDgnssNmeaRequired THEN mDgnssState \ {"noNmeaPending"}
                    ELSE mDgnssState)
  /\ leftover' = (leftover /\ "started" \notin mDgnssState)
  /\ UNCHANGED <<posted, ntripParams, mSendNmeaConsent, startPending, values, throttle,
                 mReqStatusReceived, daemon, halinit, muted>>

\* restartSessions() behind suspendSessions(), to change the configuration of the
\* engine, or after a restart of the modem without it
restartSessions(suspended) ==
  LET kept == mDgnssState
               \ ({"started"} \cup IF isDgnssNmeaRequired THEN {"noNmeaPending"} ELSE {})
      stop == IF "started" \in mDgnssState THEN <<[fn |-> "stopDgnssSource"]>> ELSE <<>>
      start == IF starts(kept)
               THEN <<[fn |-> "startDgnssSource", params |-> ntripParams]>> ELSE <<>>
  IN /\ calm /\ inSession
     /\ IF suspended
        THEN /\ mDgnssState' = IF starts(kept) THEN kept \cup {"started"} ELSE kept
             /\ mNtripParamsString' = IF starts(kept) THEN ntripParams
                                      ELSE IF stop # <<>> THEN None ELSE mNtripParamsString
             /\ sent' = after(stop \o start) /\ gga' = FALSE
        ELSE checkUpdateDgnssNtrip(mDgnssState, ntripParams) /\ UNCHANGED gga
     /\ leftover' = (leftover /\ ~starts(IF suspended THEN kept ELSE mDgnssState))
     /\ UNCHANGED <<posted, ntripParams, mSendNmeaConsent, inSession, startPending, values,
                    throttle, mReqStatusReceived, daemon, halinit, muted>>

\* reportPosition() and reportGGAToNtrip(): a GGA sentence is generated, or came
\* from the modem
reportsGGA ==
  LET state == mDgnssState \cup {"noNmeaPending"}
  IN /\ calm /\ inSession /\ isDgnssNmeaRequired /\ gga' = TRUE
     /\ checkUpdateDgnssNtrip(state, ntripParams)
     /\ leftover' = (leftover /\ ~starts(state))
     /\ UNCHANGED <<posted, ntripParams, mSendNmeaConsent, inSession, startPending, values,
                    throttle, mReqStatusReceived, daemon, halinit, muted>>
------------------------------------------------------------------------------
Next ==
  \/ daemonStarts \/ daemonDies \/ daemonAsks \/ daemonReads \/ timeOutCallback
  \/ \E item \in StatusItem, value \in {0, 1} : update(item, value)
  \/ updateXtraThrottle \/ HandleStatusRequest
  \/ \E params \in Params : enablePPENtripStreamCommand(params)
  \/ disablePPENtripStreamCommand \/ updateNTRIPGGAConsentCommand
  \/ handleEnablePPENtrip \/ handleDisablePPENtrip
  \/ sessionStarts \/ \E failed \in BOOLEAN : startAnswered(failed)
  \/ sessionStops \/ \E suspended \in BOOLEAN : restartSessions(suspended)
  \/ reportsGGA

Spec == Init /\ [][Next]_vars
------------------------------------------------------------------------------
(* Properties. *)

settled == posted = <<>> /\ sent = <<>> /\ ~startPending /\ daemon.up

\* Whenever the daemon was started, and however often: it knows the items as
\* the adapter knows them.
DaemonKnows == settled => daemon.knows = values

\* The daemon runs the source that was enabled last, only during a session;
\* and it does run it, once a position was reported if one is required.  But
\* parameters that wait for a position do not stop the source before them, and
\* a wait is not ended by the withdrawal of the consent.
SourceFollows ==
  settled =>
    /\ daemon.source # None /\ ~leftover =>
         "enabled" \in mDgnssState /\ inSession /\ daemon.source = ntripParams
    /\ "enabled" \in mDgnssState /\ inSession /\ ~muted
         /\ (ntripParams.requiresNmeaLocation => gga \/ ~mSendNmeaConsent) =>
       daemon.source = ntripParams

DaemonFollows == DaemonKnows /\ SourceFollows
=============================================================================
