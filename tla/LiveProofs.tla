----------------------------- MODULE LiveProofs -----------------------------
(***************************************************************************)
(* The safety of Live for any sets of sessions and names.  The inductive   *)
(* invariant is the conjunction of the properties: none of them is         *)
(* inductive alone (that a stream has one publisher needs the mark to      *)
(* agree with the list, that needs the list to agree with the contexts,    *)
(* and that a cleared context owns no timer needs the idle timer to be     *)
(* that of a joined publisher).  It is proved in two halves: the stream    *)
(* state, which the join, leave and status operators of Live change, and   *)
(* the session state that the handlers add.                                *)
(***************************************************************************)
EXTENDS Live, TLAPS

StreamType ==
    /\ table \subseteq Names
    /\ stream \in [Sessions -> Names \cup {NULL}]
    /\ publisher \in [Sessions -> BOOLEAN]
    /\ active \in [Sessions -> BOOLEAN]
    /\ paused \in [Sessions -> BOOLEAN]
    /\ idle \in [Sessions -> BOOLEAN]
    /\ members \in [Names -> SUBSET Sessions]
    /\ publishing \in [Names -> BOOLEAN]
    /\ sactive \in [Names -> BOOLEAN]
    /\ check \in [Names -> BOOLEAN]

Lists ==
    /\ \A s \in Sessions, n \in Names : s \in members[n] <=> stream[s] = n
    /\ \A n \in Names : n \in table <=> members[n] # {}

StreamInv == StreamType /\ Lists /\ OnePublisher /\ TimersSound /\ StatusAgrees

SessionInv ==
    /\ sess \in [Sessions -> {"none", "open", "closing"}]
    /\ rtype \in [Sessions -> BOOLEAN]
    /\ \A s \in Sessions : stream[s] # NULL => sess[s] # "none"
    /\ NoOrphanPlayers

LiveInv == StreamInv /\ SessionInv

\* The initial state, before any connection, satisfies the invariant.
LEMMA InitLive == Init => LiveInv
  BY LiveAssumption DEF Init, LiveInv, StreamInv, StreamType, Lists, OnePublisher,
     TimersSound, StatusAgrees, SessionInv, NoOrphanPlayers

\* ngx_rtmp_live_join as publisher keeps the stream state consistent.
LEMMA JoinPublisherKeeps ==
  ASSUME StreamInv, NEW s \in Sessions, NEW n \in Names, JoinPublisher(s, n)
  PROVE  StreamInv'
<1> USE LiveAssumption DEF JoinPublisher, Cleared, StreamInv
<1>1. StreamType'
  BY DEF StreamType
<1>2. Lists'
  BY DEF StreamType, Lists
<1>3. OnePublisher'
  BY DEF StreamType, Lists, OnePublisher
<1>4. TimersSound'
  BY DEF StreamType, Lists, OnePublisher, TimersSound
<1>5. StatusAgrees'
  BY DEF StreamType, Lists, OnePublisher, StatusAgrees
<1> QED BY <1>1, <1>2, <1>3, <1>4, <1>5

\* ngx_rtmp_live_join as subscriber keeps the stream state consistent.
LEMMA JoinPlayerKeeps ==
  ASSUME StreamInv, NEW s \in Sessions, NEW n \in Names, NEW relaying \in BOOLEAN,
         JoinPlayer(s, n, relaying)
  PROVE  StreamInv'
<1> USE LiveAssumption DEF JoinPlayer, StreamInv
<1>1. StreamType'
  BY DEF StreamType
<1>2. Lists'
  BY DEF StreamType, Lists
<1>3. OnePublisher'
  BY DEF StreamType, Lists, OnePublisher
<1>4. TimersSound'
  BY DEF StreamType, Lists, OnePublisher, TimersSound
<1>5. StatusAgrees'
  BY DEF StreamType, Lists, OnePublisher, StatusAgrees
<1> QED BY <1>1, <1>2, <1>3, <1>4, <1>5

\* A refused join only clears a context that is in no list.
LEMMA RefusedKeeps ==
  ASSUME StreamInv, NEW s \in Sessions, Refused(s)
  PROVE  StreamInv'
<1> USE LiveAssumption DEF Refused, Cleared, StreamInv, streamVars
<1>1. StreamType'
  BY DEF StreamType
<1>2. Lists'
  BY DEF StreamType, Lists
<1>3. OnePublisher'
  BY DEF StreamType, Lists, OnePublisher
<1>4. TimersSound'
  BY DEF StreamType, Lists, OnePublisher, TimersSound
<1>5. StatusAgrees'
  BY DEF StreamType, Lists, OnePublisher, StatusAgrees
<1> QED BY <1>1, <1>2, <1>3, <1>4, <1>5

\* A status change of a member keeps the stream state consistent.  A
\* subscriber that stops must be paused: that is what pause and leave do.
LEMMA StatusKeeps ==
  ASSUME StreamInv, NEW s \in Sessions, NEW on \in BOOLEAN, stream[s] # NULL,
         SetStatus(s, stream[s], on, members[stream[s]]),
         paused' \in [Sessions -> BOOLEAN],
         \A p \in Sessions : p # s => paused'[p] = paused[p],
         paused'[s] = paused[s] \/ paused'[s] = ~ on,
         publisher[s] \/ paused'[s] = ~ on,
         UNCHANGED <<stream, publisher, table, members, publishing, check>>
  PROVE  StreamInv'
<1> DEFINE n == stream[s]
<1> USE LiveAssumption DEF SetStatus, StatusChanges, StreamInv
<1>0. n \in Names /\ s \in members[n] /\ members[n] \subseteq Sessions
  BY DEF StreamType, Lists
<1>1. StreamType'
  BY <1>0 DEF StreamType
<1>2. Lists'
  BY DEF StreamType, Lists
<1>3. OnePublisher'
  BY DEF StreamType, Lists, OnePublisher
<1>4. TimersSound'
  BY <1>0 DEF StreamType, Lists, OnePublisher, TimersSound
<1>5. StatusAgrees'
  <2>1. CASE active[s] = on
    <3>1. active' = active /\ sactive' = sactive
      BY <2>1 DEF StreamType
    <3> QED BY <2>1, <3>1, <1>0 DEF StreamType, StatusAgrees
  <2>2. CASE active[s] # on /\ publisher[s]
    <3>1. sactive' = [sactive EXCEPT ![n] = on]
      BY <2>2
    <3>2. \A p \in Sessions : p \notin members[n] => active'[p] = active[p]
      BY <2>2, <1>0 DEF StreamType
    <3>3. \A p \in members[n] : active'[p] = on
      BY <2>2, <1>0 DEF StreamType, OnePublisher
    <3>4. \A m \in Names : m # n => sactive'[m] = sactive[m] /\ members[m] \cap members[n] = {}
      BY <3>1, <1>0 DEF StreamType, Lists
    <3>5. sactive'[n] = on
      BY <3>1, <1>0 DEF StreamType
    <3>6. (sactive[n] <=> \E p \in members[n] : publisher[p] /\ active[p])'
      BY <2>2, <3>3, <3>5, <1>0
    <3>7. (sactive[n] => \A p \in members[n] :
               publisher[p] \/ paused[p] \/ p \in Hls \/ active[p])'
      BY <3>3, <3>5, <1>0
    <3>8. ASSUME NEW m \in Names, m # n
          PROVE  /\ (sactive[m] <=> \E p \in members[m] : publisher[p] /\ active[p])'
                 /\ (sactive[m] => \A p \in members[m] :
                        publisher[p] \/ paused[p] \/ p \in Hls \/ active[p])'
      <4>1. \A p \in members[m] : p \in Sessions /\ active'[p] = active[p] /\ paused'[p] = paused[p]
        BY <3>2, <3>4, <3>8, <1>0 DEF StreamType
      <4>2. sactive'[m] = sactive[m]
        BY <3>4, <3>8
      <4> QED BY <4>1, <4>2 DEF StatusAgrees
    <3> QED BY <3>6, <3>7, <3>8 DEF StatusAgrees
  <2>3. CASE active[s] # on /\ ~ publisher[s]
    <3>1. sactive' = sactive /\ active' = [active EXCEPT ![s] = on]
      BY <2>3 DEF StreamType
    <3> QED BY <2>3, <3>1, <1>0 DEF StreamType, Lists, StatusAgrees
  <2> QED BY <2>1, <2>2, <2>3
<1> QED BY <1>1, <1>2, <1>3, <1>4, <1>5

\* ngx_rtmp_live_close_stream keeps the stream state consistent.
LEMMA LeaveKeeps ==
  ASSUME StreamInv, NEW s \in Sessions, Leave(s)
  PROVE  StreamInv'
<1> DEFINE n == stream[s]
           rest == members[n] \ {s}
<1> USE LiveAssumption DEF StreamInv
<1>0. n \in Names /\ s \in members[n] /\ members[n] \subseteq Sessions
  BY DEF StreamType, Lists, Leave
<1>1. /\ MarkedWithout(s, n) \in BOOLEAN /\ CheckAfter(s, n, rest) \in BOOLEAN
      /\ TableAfter(n, rest) \subseteq Names
  BY <1>0 DEF StreamType, MarkedWithout, TableAfter, CheckAfter
<1>2. /\ members' = [members EXCEPT ![n] = rest]
      /\ publishing' = [publishing EXCEPT ![n] = MarkedWithout(s, n)]
      /\ table' = TableAfter(n, rest)
      /\ check' = [check EXCEPT ![n] = CheckAfter(s, n, rest)]
      /\ stream' = [stream EXCEPT ![s] = NULL]
      /\ UNCHANGED <<publisher, paused>>
      /\ IF publisher[s] \/ sactive[n]
         THEN SetStatus(s, n, FALSE, rest)
         ELSE UNCHANGED <<active, sactive, idle>>
  BY DEF Leave
<1> HIDE DEF n, rest
<1>3. /\ active' \in [Sessions -> BOOLEAN]
      /\ idle' \in [Sessions -> BOOLEAN]
      /\ sactive' \in [Names -> BOOLEAN]
  <2>1. CASE publisher[s] \/ sactive[n]
    <3>1. active' \in [Sessions -> BOOLEAN]
      BY <1>2, <2>1 DEF StreamType, SetStatus
    <3>2. idle' \in [Sessions -> BOOLEAN]
      BY <1>2, <2>1 DEF StreamType, SetStatus
    <3>3. sactive' \in [Names -> BOOLEAN]
      BY <1>0, <1>2, <2>1 DEF StreamType, SetStatus
    <3> QED BY <3>1, <3>2, <3>3
  <2>2. CASE ~ (publisher[s] \/ sactive[n])
    BY <1>2, <2>2 DEF StreamType
  <2> QED BY <2>1, <2>2
<1>4. StreamType'
  <2>1. members' \in [Names -> SUBSET Sessions]
    BY <1>0, <1>2 DEF StreamType, rest
  <2>2. publishing' \in [Names -> BOOLEAN] /\ check' \in [Names -> BOOLEAN]
    BY <1>0, <1>1, <1>2 DEF StreamType
  <2>3. stream' \in [Sessions -> Names \cup {NULL}]
    BY <1>2 DEF StreamType
  <2> QED BY <1>1, <1>2, <1>3, <2>1, <2>2, <2>3 DEF StreamType
<1>5. Lists'
  BY <1>0, <1>2 DEF StreamType, Lists, TableAfter, n, rest
<1>6. OnePublisher'
  <2>1. ASSUME NEW m \in Names, m # n
        PROVE  publishing'[m] = publishing[m] /\ members'[m] = members[m]
    BY <1>0, <1>2, <2>1 DEF StreamType
  <2>2. publishing'[n] = MarkedWithout(s, n) /\ members'[n] = rest
    BY <1>0, <1>2 DEF StreamType
  <2>3. MarkedWithout(s, n) <=> \E t \in rest : publisher[t]
    BY <1>0 DEF StreamType, OnePublisher, MarkedWithout, rest
  <2> QED BY <1>2, <2>1, <2>2, <2>3 DEF OnePublisher, rest
<1>7. TimersSound'
  <2>1. ASSUME NEW m \in Names, check'[m] PROVE m \in table' /\ ~ publishing'[m]
    BY <2>1, <1>0, <1>2 DEF StreamType, Lists, OnePublisher, TimersSound,
       MarkedWithout, TableAfter, CheckAfter, rest
  <2>2. ASSUME NEW t \in Sessions, idle'[t]
        PROVE  IdleTimeout /\ stream'[t] # NULL /\ publisher'[t] /\ active'[t]
    <3>0. idle[t]
      BY <2>2, <1>2 DEF StreamType, SetStatus
    <3>1. idle[t] /\ t # s
      <4>1. SUFFICES ASSUME t = s PROVE FALSE
        BY <3>0
      <4>2. publisher[s] /\ active[s] /\ IdleTimeout
        BY <3>0, <4>1 DEF TimersSound
      <4>3. StatusChanges(s, FALSE, rest) # {}
        BY <4>2 DEF StatusChanges
      <4>4. idle' = [idle EXCEPT ![s] = FALSE]
        BY <1>2, <4>2, <4>3 DEF SetStatus
      <4> QED BY <2>2, <4>1, <4>4 DEF StreamType
    <3>2. publisher[t] /\ active'[t] = active[t]
      BY <2>2, <3>1, <1>0, <1>2 DEF StreamType, TimersSound, SetStatus, StatusChanges
    <3> QED BY <3>1, <3>2, <1>2 DEF StreamType, TimersSound
  <2> QED BY <2>1, <2>2 DEF TimersSound
<1>8. StatusAgrees'
  <2>1. CASE publisher[s]
    <3>1. ~ sactive'[n] /\ \A m \in Names : m # n => sactive'[m] = sactive[m]
      <4>1. ~ active[s] => ~ sactive[n]
        BY <2>1, <1>0 DEF OnePublisher, StatusAgrees
      <4> QED BY <2>1, <4>1, <1>0, <1>2 DEF StreamType, SetStatus, StatusChanges
    <3>2. \A p \in Sessions : p \notin members[n] => active'[p] = active[p]
      BY <2>1, <1>0, <1>2 DEF StreamType, SetStatus, StatusChanges, rest
    <3>3. \A p \in rest : ~ publisher[p]
      BY <2>1, <1>0 DEF OnePublisher, rest
    <3> QED BY <3>1, <3>2, <3>3, <1>0, <1>2 DEF StreamType, Lists, StatusAgrees, rest, n
  <2>2. CASE ~ publisher[s]
    <3>1. sactive' = sactive /\ \A t \in Sessions : t # s => active'[t] = active[t]
      BY <2>2, <1>0, <1>2 DEF StreamType, SetStatus, StatusChanges
    <3> QED BY <2>2, <3>1, <1>0, <1>2 DEF StreamType, Lists, StatusAgrees, rest, n
  <2> QED BY <2>1, <2>2
<1> QED BY <1>4, <1>5, <1>6, <1>7, <1>8

\* Finalizing sessions opens none, frees none and keeps the closing ones.
LEMMA FinalizeFacts ==
  ASSUME sess \in [Sessions -> {"none", "open", "closing"}], NEW S
  PROVE  /\ Finalize(S) \in [Sessions -> {"none", "open", "closing"}]
         /\ \A t \in Sessions : Finalize(S)[t] = "none" <=> sess[t] = "none"
         /\ \A t \in Sessions : sess[t] = "closing" => Finalize(S)[t] = "closing"
         /\ \A t \in Sessions : t \in S /\ sess[t] # "none" => Finalize(S)[t] = "closing"
  BY DEF Finalize

\* A step that only finalizes sessions, or leaves them alone, keeps the
\* invariant.
LEMMA FinalizeKeeps ==
  ASSUME LiveInv, NEW S, sess' = Finalize(S) \/ sess' = sess,
         StreamInv', UNCHANGED <<rtype, stream, members, publishing>>
  PROVE  LiveInv'
  BY FinalizeFacts DEF LiveInv, StreamInv, StreamType, SessionInv, NoOrphanPlayers

\* A member that leaves keeps the invariant when those it orphans are finalized.
LEMMA LeavingKeeps ==
  ASSUME LiveInv, NEW s \in Sessions, Leave(s), UNCHANGED rtype,
         sess' \in [Sessions -> {"none", "open", "closing"}],
         \A t \in Sessions : t # s /\ sess[t] # "none" => sess'[t] # "none",
         \A t \in Sessions : t # s /\ sess[t] = "closing" => sess'[t] = "closing",
         \A t \in LeaveFinalizes(s) : sess[t] # "none" => sess'[t] = "closing"
  PROVE  LiveInv'
<1> DEFINE n == stream[s]
<1>1. StreamInv'
  BY LeaveKeeps DEF LiveInv
<1>2. /\ n \in Names /\ s \in members[n]
      /\ stream' = [stream EXCEPT ![s] = NULL]
      /\ members' = [members EXCEPT ![n] = members[n] \ {s}]
      /\ publishing' = [publishing EXCEPT ![n] = MarkedWithout(s, n)]
  BY DEF Leave, LiveInv, StreamInv, StreamType, Lists
<1>3. \A t \in Sessions : stream'[t] # NULL => sess'[t] # "none"
  BY <1>2 DEF LiveInv, StreamInv, StreamType, SessionInv
<1>4. NoOrphanPlayers'
  <2> SUFFICES ASSUME NEW m \in Names \ IdleStreams, NEW p \in members'[m]
               PROVE  publishing'[m] \/ rtype'[p] \/ sess'[p] = "closing"
    BY DEF NoOrphanPlayers
  <2>1. p \in members[m] /\ p # s /\ p \in Sessions
    BY <1>2 DEF LiveInv, StreamInv, StreamType, Lists
  <2>2. CASE m # n \/ ~ publisher[s]
    BY <1>2, <2>1, <2>2 DEF LiveInv, StreamInv, StreamType, SessionInv, NoOrphanPlayers,
       MarkedWithout
  <2>3. CASE m = n /\ publisher[s]
    <3>1. p \in LeaveFinalizes(s)
      BY <1>2, <2>1, <2>3 DEF LeaveFinalizes, Orphans, LiveInv, StreamInv, OnePublisher
    <3>2. sess[p] # "none"
      BY <2>1, LiveAssumption DEF LiveInv, StreamInv, StreamType, Lists, SessionInv
    <3> QED BY <3>1, <3>2
  <2> QED BY <2>2, <2>3
<1> QED BY <1>1, <1>3, <1>4 DEF LiveInv, SessionInv, StreamInv, StreamType

\* Every handler preserves the invariant.
LEMMA NextLive == LiveInv /\ [Next]_vars => LiveInv'
<1> SUFFICES ASSUME LiveInv, [Next]_vars PROVE LiveInv'
  OBVIOUS
<1> USE LiveAssumption
<1>t. StreamType /\ StreamInv
  BY DEF LiveInv, StreamInv
<1>s. UNCHANGED liveVars => StreamInv'
  BY <1>t DEF liveVars, ctxVars, streamVars, StreamInv, StreamType, Lists, OnePublisher,
     TimersSound, StatusAgrees
<1>1. ASSUME NEW s \in Sessions, Accept(s) PROVE LiveInv'
  <2>1. stream[s] = NULL /\ ~ idle[s]
    BY <1>1 DEF LiveInv, SessionInv, StreamInv, StreamType, TimersSound, Accept
  <2>2. StreamInv'
    BY <1>1, <2>1 DEF LiveInv, StreamInv, StreamType, Lists, OnePublisher, TimersSound,
       StatusAgrees, Accept, streamVars
  <2>3. SessionInv'
    BY <1>1, <2>1 DEF LiveInv, StreamInv, StreamType, Lists, SessionInv, NoOrphanPlayers,
       Accept, streamVars
  <2> QED BY <2>2, <2>3 DEF LiveInv
<1>2. ASSUME NEW s \in Sessions, NEW n \in Names, Publish(s, n) PROVE LiveInv'
  <2>1. StreamInv'
    BY <1>t, <1>s, <1>2, JoinPublisherKeeps, RefusedKeeps DEF Publish, PublishLive
  <2>2. CASE JoinPublisher(s, n)
    BY <1>2, <2>1, <2>2 DEF Publish, JoinPublisher, LiveInv, StreamInv, StreamType,
       SessionInv, NoOrphanPlayers
  <2>3. CASE Refused(s) \/ UNCHANGED liveVars
    BY <1>2, <2>1, <2>3, FinalizeKeeps
       DEF Publish, Refused, liveVars, ctxVars, streamVars
  <2> QED BY <1>2, <2>2, <2>3 DEF Publish, PublishLive
<1>3. ASSUME NEW s \in Sessions, NEW n \in Names, NEW rt \in BOOLEAN,
             NEW relaying \in BOOLEAN, Play(s, n, rt, relaying)
      PROVE  LiveInv'
  <2>1. StreamInv'
    BY <1>t, <1>s, <1>3, JoinPlayerKeeps, RefusedKeeps DEF Play, PlayLive
  <2>2. /\ rtype' \in [Sessions -> BOOLEAN]
        /\ \A p \in Sessions : rtype[p] => rtype'[p]
        /\ \E bad : sess' = Finalize(bad)
    BY <1>3 DEF Play, LiveInv, SessionInv
  <2>3. /\ sess' \in [Sessions -> {"none", "open", "closing"}]
        /\ \A t \in Sessions : sess'[t] = "none" <=> sess[t] = "none"
        /\ \A t \in Sessions : sess[t] = "closing" => sess'[t] = "closing"
    BY <2>2, FinalizeFacts DEF LiveInv, SessionInv
  <2>4. CASE JoinPlayer(s, n, relaying)
    <3>1. NoOrphanPlayers'
      BY <2>2, <2>3, <2>4 DEF JoinPlayer, MayJoin, LiveInv, StreamInv, StreamType,
         SessionInv, NoOrphanPlayers
    <3>2. \A t \in Sessions : stream'[t] # NULL => sess'[t] # "none"
      BY <1>3, <2>3, <2>4 DEF Play, JoinPlayer, LiveInv, StreamInv, StreamType, SessionInv
    <3> QED BY <2>1, <2>2, <2>3, <3>1, <3>2 DEF LiveInv, SessionInv
  <2>5. CASE Refused(s) \/ UNCHANGED liveVars
    <3>1. UNCHANGED <<stream, members, publishing>>
      BY <2>5 DEF Refused, liveVars, ctxVars, streamVars
    <3>2. NoOrphanPlayers'
      BY <2>2, <2>3, <3>1 DEF LiveInv, StreamInv, StreamType, SessionInv, NoOrphanPlayers
    <3> QED BY <2>1, <2>2, <2>3, <3>1, <3>2 DEF LiveInv, SessionInv
  <2> QED BY <1>3, <2>4, <2>5 DEF Play, PlayLive
<1>4. ASSUME NEW s \in Sessions, CloseStream(s, {}) PROVE LiveInv'
  <2>1. PICK bad : sess' = Finalize(LeaveFinalizes(s) \cup bad \cup {})
    BY <1>4 DEF CloseStream
  <2>2. LeaveFinalizes(s) \subseteq Sessions
    BY <1>t, <1>4 DEF CloseStream, Leave, LeaveFinalizes, Orphans, StreamType
  <2>3. Leave(s) /\ UNCHANGED rtype
    BY <1>4 DEF CloseStream
  <2> QED BY <2>1, <2>2, <2>3, FinalizeFacts, LeavingKeeps DEF LiveInv, SessionInv
<1>5. ASSUME NEW s \in Sessions, CloseSession(s, {}) PROVE LiveInv'
  <2>1. UNCHANGED rtype
    BY <1>5 DEF CloseSession
  <2>2. CASE Leave(s)
    <3>1. PICK bad : sess' = [Finalize(LeaveFinalizes(s) \cup bad \cup {}) EXCEPT ![s] = "none"]
      BY <1>5, <2>2 DEF CloseSession, Leave
    <3>2. LeaveFinalizes(s) \subseteq Sessions \ {s}
      BY <1>t, <2>2 DEF Leave, LeaveFinalizes, Orphans, StreamType
    <3> DEFINE G == Finalize(LeaveFinalizes(s) \cup bad \cup {})
    <3>3. /\ G \in [Sessions -> {"none", "open", "closing"}]
          /\ \A t \in Sessions : G[t] = "none" <=> sess[t] = "none"
          /\ \A t \in Sessions : sess[t] = "closing" => G[t] = "closing"
          /\ \A t \in Sessions : t \in LeaveFinalizes(s) /\ sess[t] # "none" => G[t] = "closing"
      BY FinalizeFacts DEF LiveInv, SessionInv
    <3> HIDE DEF G
    <3>4. sess' = [G EXCEPT ![s] = "none"]
      BY <3>1 DEF G
    <3> QED BY <2>1, <2>2, <3>2, <3>3, <3>4, LeavingKeeps
  <2>3. CASE stream[s] = NULL /\ UNCHANGED liveVars
    <3> DEFINE G == Finalize({})
    <3>0. /\ G \in [Sessions -> {"none", "open", "closing"}]
          /\ \A t \in Sessions : G[t] = "none" <=> sess[t] = "none"
          /\ \A t \in Sessions : sess[t] = "closing" => G[t] = "closing"
      BY FinalizeFacts DEF LiveInv, SessionInv
    <3>a. ~ Leave(s)
      BY <2>3 DEF Leave
    <3>b. sess' = [G EXCEPT ![s] = "none"]
      BY <1>5, <3>a DEF CloseSession
    <3> HIDE DEF G
    <3>1. \A t \in Sessions : t # s => sess'[t] = G[t]
      BY <3>0, <3>b
    <3>2. sess' \in [Sessions -> {"none", "open", "closing"}]
      BY <3>0, <3>b
    <3>3. UNCHANGED <<stream, members, publishing>>
      BY <2>3 DEF liveVars, ctxVars, streamVars
    <3>4. NoOrphanPlayers'
      <4>1. \A m \in Names : \A p \in members[m] : p \in Sessions /\ p # s
        BY <2>3 DEF LiveInv, StreamInv, StreamType, Lists
      <4>2. \A p \in Sessions : p # s /\ sess[p] = "closing" => sess'[p] = "closing"
        BY <3>0, <3>1
      <4> QED BY <2>1, <3>3, <4>1, <4>2 DEF LiveInv, SessionInv, NoOrphanPlayers
    <3>5. \A t \in Sessions : stream'[t] # NULL => sess'[t] # "none"
      BY <2>3, <3>0, <3>1, <3>3 DEF LiveInv, SessionInv
    <3> QED BY <1>s, <2>1, <2>3, <3>2, <3>4, <3>5 DEF LiveInv, SessionInv
  <2> QED BY <1>5, <2>2, <2>3 DEF CloseSession
<1>6. ASSUME NEW s \in Sessions, NEW on \in BOOLEAN, Pause(s, on) PROVE LiveInv'
  <2>1. StreamInv'
    BY <1>t, <1>6, StatusKeeps DEF Pause, StreamType
  <2> QED BY <1>6, <2>1, FinalizeKeeps DEF Pause
<1>7. ASSUME NEW s \in Sessions, NEW on \in BOOLEAN, Signal(s, on) PROVE LiveInv'
  <2>1. StreamInv'
    BY <1>t, <1>7, StatusKeeps DEF Signal, StreamType
  <2> QED BY <1>7, <2>1, FinalizeKeeps DEF Signal
<1>8. ASSUME NEW s \in Sessions, IdleFires(s) PROVE LiveInv'
  <2>1. /\ idle' = [idle EXCEPT ![s] = FALSE] /\ sess' = Finalize({s})
        /\ UNCHANGED <<rtype, stream, publisher, active, paused>>
        /\ UNCHANGED <<table, members, publishing, sactive, check>>
    BY <1>8 DEF IdleFires, streamVars
  <2>2. StreamType' /\ Lists'
    BY <1>t, <2>1 DEF StreamInv, StreamType, Lists
  <2>3. OnePublisher' /\ StatusAgrees'
    BY <1>t, <2>1 DEF StreamInv, OnePublisher, StatusAgrees
  <2>4. TimersSound'
    BY <1>t, <2>1 DEF StreamInv, StreamType, TimersSound
  <2>5. StreamInv'
    BY <2>2, <2>3, <2>4 DEF StreamInv
  <2> QED BY <2>1, <2>5, FinalizeKeeps
<1>9. ASSUME NEW n \in Names, CheckFires(n) PROVE LiveInv'
  <2>1. /\ check[n] /\ \E b \in BOOLEAN : check' = [check EXCEPT ![n] = b]
        /\ UNCHANGED <<rtype, stream, publisher, active, paused, idle>>
        /\ UNCHANGED <<table, members, publishing, sactive>>
    BY <1>9 DEF CheckFires, ctxVars
  <2>2. \E S : sess' = Finalize(S) \/ sess' = sess
    BY <1>9 DEF CheckFires
  <2>3. StreamType' /\ Lists'
    BY <1>t, <2>1 DEF StreamInv, StreamType, Lists
  <2>4. OnePublisher' /\ StatusAgrees'
    BY <1>t, <2>1 DEF StreamInv, OnePublisher, StatusAgrees
  <2>5. TimersSound'
    BY <1>t, <2>1 DEF StreamInv, StreamType, TimersSound
  <2>6. StreamInv'
    BY <2>3, <2>4, <2>5 DEF StreamInv
  <2> QED BY <2>1, <2>2, <2>6, FinalizeKeeps
<1>10. ASSUME NEW s \in Sessions, Drop(s) PROVE LiveInv'
  BY <1>s, <1>10, FinalizeKeeps DEF Drop, liveVars, ctxVars, streamVars
<1>12. ASSUME NEW s \in Sessions, BadRedirect(s) PROVE LiveInv'
  <2>1. /\ UNCHANGED <<stream, members, publishing>>
        /\ sess' = Finalize({s})
        /\ rtype' = [rtype EXCEPT ![s] = TRUE]
    BY <1>12 DEF BadRedirect, liveVars, ctxVars, streamVars
  <2>2. StreamInv'
    BY <1>s, <1>12 DEF BadRedirect
  <2> QED BY <2>1, <2>2, FinalizeFacts
        DEF LiveInv, StreamInv, StreamType, SessionInv, NoOrphanPlayers
<1>11. CASE UNCHANGED vars
  <2>1. UNCHANGED liveVars /\ UNCHANGED <<sess, rtype>>
    BY <1>11 DEF vars
  <2> QED BY <1>s, <2>1, FinalizeKeeps DEF liveVars, ctxVars, streamVars
<1> QED BY <1>1, <1>2, <1>3, <1>4, <1>5, <1>6, <1>7, <1>8, <1>9, <1>10, <1>11, <1>12 DEF Next

\* The inductive invariant implies the properties of Live.
LEMMA LiveInvImplies ==
  LiveInv => TypeOK /\ Registry /\ OnePublisher /\ TimersSound /\ StatusAgrees /\ NoOrphanPlayers
<1> SUFFICES ASSUME LiveInv PROVE TypeOK /\ Registry
  BY DEF LiveInv, StreamInv, SessionInv
<1>1. stream \in [Sessions -> table \cup {NULL}]
  BY DEF LiveInv, StreamInv, StreamType, Lists
<1> QED BY <1>1 DEF LiveInv, StreamInv, StreamType, Lists, SessionInv, TypeOK, Registry

\* The inductive invariant holds in every reachable state.
THEOREM LiveSafe == Spec => []LiveInv
  BY InitLive, NextLive, PTL DEF Spec

\* For any number of sessions and streams, contexts and stream lists agree and
\* no list holds a session that has been freed: the handlers of the live
\* module, the finalizations they cause and the posted closes together keep
\* the table consistent.
THEOREM LiveRegistry == Spec => [](TypeOK /\ Registry)
  BY LiveSafe, LiveInvImplies, PTL

\* For any number of sessions and streams, a stream never has two publishers
\* and its mark tells whether it has one (ngx_rtmp_live_join).
THEOREM LiveOnePublisher == Spec => []OnePublisher
  BY LiveSafe, LiveInvImplies, PTL

\* For any number of sessions and streams, no timer of the live module is armed
\* for a stream that is deleted or published, or for a context that has left.
THEOREM LiveTimersSound == Spec => []TimersSound
  BY LiveSafe, LiveInvImplies, PTL

\* For any number of sessions and streams, players see the status of their
\* publisher (ngx_rtmp_live_set_status).
THEOREM LiveStatusAgrees == Spec => []StatusAgrees
  BY LiveSafe, LiveInvImplies, PTL

\* For any number of sessions and streams, without idle_streams no player is
\* left at a stream whose publisher has gone (ngx_rtmp_live_close_stream).
THEOREM LiveNoOrphanPlayers == Spec => []NoOrphanPlayers
  BY LiveSafe, LiveInvImplies, PTL

=============================================================================
