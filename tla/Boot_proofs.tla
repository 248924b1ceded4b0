---------------------------- MODULE Boot_proofs ----------------------------
(***************************************************************************)
(* Proofs about Boot, for every set of environments and any number of      *)
(* stops and requests.  What a boot knows when it takes up the access      *)
(* point, and what it knows of a network that has come up in time, is kept *)
(* step by step in Timing; Remembered follows the access point from the    *)
(* step that brings it up to the one that writes the state file.           *)
(***************************************************************************)
EXTENDS Boot, TLAPS

Timing ==
  /\ pc = "hotspot" => missed \/ file.setup \/ ~saved \/ trial # "none" \/ ~InGrace
  /\ pc = "look" => ~inTime
  /\ pc = "hotspot" => missed \/ ~inTime
  /\ pc = "grace" /\ inTime => missed \/ InGrace
  /\ pc \in {"grace", "poll"} /\ inTime => active = "client"

Remembered ==
  pc \in Serving \ {"reset"} /\ active = "ap" => file.setup \/ failed

IInv == TypeOK /\ AcceptedConfigurationBuilds /\ Timing /\ Remembered

Connections ==
  /\ saved \in BOOLEAN
  /\ active \in {"none", "client", "ap"}
  /\ trial \in {"none", "client", "nothing"}
  /\ due \in BOOLEAN

-----------------------------------------------------------------------------
(***************************************************************************)
(* The commands of the helper keep the types, and none but start-ap and    *)
(* reset-client brings the access point up.                                *)
(***************************************************************************)
LEMMA HereFact ==
  ASSUME Connections
  PROVE  Here \in Links /\ Here.active = active
PROOF
  BY DEF Here, Links, Connections

LEMMA ForgetFact ==
  ASSUME NEW links \in Links
  PROVE  Forget(links) \in Links /\ Forget(links).active = links.active
PROOF
  BY DEF Forget, Links

LEMMA CutFact ==
  ASSUME NEW links \in Links, NEW cut \in Cut(links)
  PROVE  cut \in Links /\ (cut.active = "ap" => links.active = "ap")
PROOF
  BY DEF Cut, Links

LEMMA OnNetworkFact == OnNetwork \in Links /\ OnNetwork.active = "client"
PROOF
  BY DEF OnNetwork, Links

LEMMA RolledBackFact ==
  ASSUME NEW links \in Links, NEW back \in RolledBack(links) \cup Stuck(links)
  PROVE  back \in Links /\ (back.active = "ap" => links.active = "ap")
PROOF
  <1>1. CASE back \in Cut(links)
    BY <1>1, CutFact
  <1>2. CASE back \in Cut(Forget(links))
    <2>1. Forget(links) \in Links /\ Forget(links).active = links.active
      BY ForgetFact
    <2> DEFINE forgotten == Forget(links)
    <2>2. forgotten \in Links /\ back \in Cut(forgotten)
      BY <1>2, <2>1
    <2> HIDE DEF forgotten
    <2>3. back \in Links /\ (back.active = "ap" => forgotten.active = "ap")
      BY <2>2, CutFact
    <2>4. QED
      BY <2>1, <2>3 DEF forgotten
  <1>3. CASE back = links \/ back = OnNetwork
    BY <1>3, OnNetworkFact
  <1>4. QED
    <2>1. links.trial \in {"none", "client", "nothing"}
      BY DEF Links
    <2>2. QED
      BY <1>1, <1>2, <1>3, <2>1 DEF RolledBack, Stuck

LEMMA SettledFact ==
  ASSUME NEW links \in Links, NEW settled \in Settled(links)
  PROVE  settled \in Links /\ (settled.active = "ap" => links.active = "ap")
PROOF
  BY RolledBackFact DEF Settled

LEMMA FailedFact ==
  ASSUME NEW links \in Links, NEW left \in Failed(links)
  PROVE  left \in Links /\ (left.active = "ap" => links.active = "ap")
PROOF
  BY RolledBackFact DEF Failed

LEMMA HotspotFromFact ==
  ASSUME NEW links \in Links, NEW up \in HotspotFrom(links)
  PROVE  up \in Links
PROOF
  BY DEF HotspotFrom, Links

LEMMA ApStartedFact ==
  ASSUME NEW links \in Links, NEW started \in ApStarted(links)
  PROVE  started \in Links
PROOF
  <1>1. PICK settled \in Settled(links) : started \in HotspotFrom(Forget(settled))
    BY DEF ApStarted
  <1>2. QED
    BY <1>1, SettledFact, ForgetFact, HotspotFromFact

LEMMA ClientResetFact ==
  ASSUME NEW links \in Links, NEW reset \in ClientReset(links)
  PROVE  reset \in Links
PROOF
  <1>1. PICK settled \in Settled(links) :
          \E begun \in ResetTrials(settled) : reset \in HotspotFrom(begun)
    BY DEF ClientReset
  <1>2. ResetTrials(settled) \subseteq Links
    BY <1>1, SettledFact, ForgetFact DEF ResetTrials, Links
  <1>3. QED
    BY <1>1, <1>2, HotspotFromFact

\* What is left of a trial that goes back to "back".
LEMMA TriedFact ==
  ASSUME NEW settled \in Links, NEW back \in Back(settled),
         NEW tried \in {OnNetwork} \cup Cut([settled EXCEPT !.trial = back])
  PROVE  tried \in Links /\ (tried.active = "ap" => settled.active = "ap")
PROOF
  <1>1. back \in {"none", "client", "nothing"}
    BY DEF Back, Links
  <1> DEFINE begun == [settled EXCEPT !.trial = back]
  <1>2. begun \in Links /\ begun.active = settled.active
    BY <1>1 DEF Links
  <1>3. tried = OnNetwork \/ tried \in Cut(begun)
    OBVIOUS
  <1> HIDE DEF begun
  <1>4. QED
    BY <1>2, <1>3, CutFact, OnNetworkFact

\* What is left is connections.
LEMMA BecomesFact ==
  ASSUME NEW links \in Links, Becomes(links)
  PROVE  Connections' /\ active' = links.active
PROOF
  BY DEF Becomes, Links, Connections

LEMMA HelperFailsFact ==
  ASSUME Connections, HelperFails
  PROVE  /\ Connections' /\ UNCHANGED timers
         /\ active' = "ap" => active = "ap"
PROOF
  <1>1. PICK links \in Failed(Here) : Becomes(links)
    BY DEF HelperFails
  <1>2. links \in Links /\ (links.active = "ap" => active = "ap")
    BY HereFact, FailedFact
  <1>3. QED
    BY <1>1, <1>2, BecomesFact DEF HelperFails

LEMMA StatusFact ==
  ASSUME Connections, Status
  PROVE  /\ Connections' /\ UNCHANGED timers
         /\ active' = "ap" => active = "ap"
PROOF
  <1>1. PICK settled \in Settled(Here) : Becomes(settled)
    BY DEF Status
  <1>2. settled \in Links /\ (settled.active = "ap" => active = "ap")
    BY HereFact, SettledFact
  <1>3. QED
    BY <1>1, <1>2, BecomesFact DEF Status

LEMMA StartApFact ==
  ASSUME Connections, StartAp
  PROVE  Connections' /\ UNCHANGED timers
PROOF
  <1>1. PICK links \in ApStarted(Here) : Becomes(links)
    BY DEF StartAp
  <1>2. QED
    BY <1>1, HereFact, ApStartedFact, BecomesFact DEF StartAp

LEMMA ResetClientFact ==
  ASSUME Connections, ResetClient
  PROVE  /\ Connections'
         /\ timers' \in {timers, timers + 1}
PROOF
  <1>1. PICK links \in ClientReset(Here) : Becomes(links)
    BY DEF ResetClient
  <1>2. QED
    BY <1>1, HereFact, ClientResetFact, BecomesFact DEF ResetClient

LEMMA ApplyClientFact ==
  ASSUME Connections, timers \in Nat, ApplyClient
  PROVE  /\ Connections'
         /\ timers' \in {timers, timers + 1}
         /\ active' = "ap" => active = "ap"
PROOF
  <1>0. PICK settled \in Settled(Here) :
          \E back \in Back(settled) : \E shells \in Shells(settled, back) :
            /\ \E links \in {OnNetwork} \cup Cut([settled EXCEPT !.trial = back]) : Becomes(links)
            /\ timers' = timers + shells
    BY DEF ApplyClient
  <1>1. PICK back \in Back(settled) : \E shells \in Shells(settled, back) :
          /\ \E links \in {OnNetwork} \cup Cut([settled EXCEPT !.trial = back]) : Becomes(links)
          /\ timers' = timers + shells
    BY <1>0
  <1>2. settled \in Links /\ (settled.active = "ap" => active = "ap")
    BY HereFact, SettledFact
  <1>3. PICK links \in {OnNetwork} \cup Cut([settled EXCEPT !.trial = back]) : Becomes(links)
    BY <1>1
  <1>4. links \in Links /\ (links.active = "ap" => active = "ap")
    BY <1>2, TriedFact
  <1>5. timers' \in {timers + 0, timers + 1}
    BY <1>1 DEF Shells
  <1>6. QED
    BY <1>3, <1>4, <1>5, BecomesFact

LEMMA SetupStatusFact ==
  ASSUME Connections, file \in OperatorState, SetupStatus \/ SetupStatusFails
  PROVE  /\ Connections' /\ UNCHANGED timers
         /\ active' = "ap" => active = "ap"
         /\ file' \in OperatorState /\ file'.setup = file.setup
PROOF
  <1>1. file' \in Reconciled
    BY DEF SetupStatus, SetupStatusFails
  <1>2. file' \in OperatorState /\ file'.setup = file.setup
    BY <1>1 DEF Reconciled, OperatorState, MarkReauthStarted, MarkReauthRequested
  <1>3. Status \/ HelperFails \/ UNCHANGED wifi
    BY DEF SetupStatus, SetupStatusFails
  <1>4. QED
    BY <1>2, <1>3, StatusFact, HelperFailsFact DEF Connections, wifi

\* Setup mode is marked in a state of the right type.
LEMMA MarkSetupFact ==
  ASSUME file \in OperatorState, NEW requested \in BOOLEAN, NEW wifi_mode \in WifiModes
  PROVE  /\ MarkSetupRequested(file, requested, wifi_mode) \in OperatorState
         /\ MarkSetupRequested(file, requested, wifi_mode).setup = requested
PROOF
  BY DEF MarkSetupRequested, OperatorState

-----------------------------------------------------------------------------
(***************************************************************************)
(* A configuration that is accepted passes the assertions.                 *)
(***************************************************************************)
LEMMA AcceptedFact ==
  ASSUME NEW env \in Environments, Outcome(env) # Invalid
  PROVE  AssertionsHold(Outcome(env))
PROOF
  <1> DEFINE read == FromEnv(env)
  <1>1. Accepted(read) /\ Outcome(env) = [key \in Relevant |-> read[key]]
    BY DEF Outcome
  <1>2. Consistent(read)
    BY <1>1 DEF Accepted
  <1> HIDE DEF read
  <1>3. QED
    BY <1>1, <1>2 DEF Consistent, AssertionsHold, Relevant

-----------------------------------------------------------------------------
(***************************************************************************)
(* The inductive invariant.                                                *)
(***************************************************************************)
LEMMA InitIInv == Init => IInv
PROOF
  <1> SUFFICES ASSUME Init PROVE IInv
    OBVIOUS
  <1> USE DEF Init
  <1>1. file \in OperatorState
    BY DEF OperatorState, Defaults, PlaybackModes, WifiModes
  <1>2. stops \in 0..MaxStops /\ deeds \in 0..MaxDeeds
    BY BoundsAssumption
  <1>3. timers \in 0..deeds /\ ~(timers > 0)
    OBVIOUS
  <1>4. TypeOK
    BY <1>1, <1>2, <1>3, Zenon DEF TypeOK
  <1>5. AcceptedConfigurationBuilds /\ Timing /\ Remembered
    BY DEF AcceptedConfigurationBuilds, Timing, Remembered, Serving
  <1>6. QED
    BY <1>4, <1>5 DEF IInv

\* The end of a run satisfies all but the types of what outlives it.
LEMMA EndFact ==
  ASSUME TypeOK, NEW status \in {"none", "0", "1", "2", "130"}, End(status)
  PROVE  /\ pc' = "off" /\ code' \in {"none", "0", "1", "2", "130"}
         /\ settings' \in {NoSettings} \cup (Outcomes \ {Invalid})
         /\ services' = {}
         /\ AcceptedConfigurationBuilds' /\ Timing' /\ Remembered'
PROOF
  BY DEF End, AcceptedConfigurationBuilds, Timing, Remembered, Serving

\* What initialize() knows once it has gone on.
LEMMA GoesOnFact ==
  ASSUME NEW step, NEW blind \in BOOLEAN, missed \in BOOLEAN, GoesOn(step, blind)
  PROVE  /\ pc' = step /\ UNCHANGED <<code, settings, services, file, failed, joined>>
         /\ inTime' \in BOOLEAN /\ missed' \in BOOLEAN
         /\ missed' = (missed \/ blind)
         /\ inTime' => inTime /\ active' = "client"
PROOF
  BY DEF GoesOn

LEMMA NextIInv == IInv /\ [Next]_vars => IInv'
PROOF
<1> SUFFICES ASSUME IInv, [Next]_vars PROVE IInv'
  OBVIOUS
<1> USE DEF IInv, TypeOK, Starting, Serving
<1>0. Connections
  BY DEF Connections
<1>1. ASSUME NEW outcome \in Outcomes, Start(outcome) PROVE IInv'
  <2>1. CASE outcome = Invalid
    BY <1>1, <2>1, EndFact DEF Start, wifi, history, bounds
  <2>2. CASE outcome # Invalid
    <3>1. AssertionsHold(outcome)
      BY <2>2, AcceptedFact DEF Outcomes
    <3>2. QED
      BY <1>1, <2>2, <3>1 DEF Start, AcceptedConfigurationBuilds, Timing, Remembered,
        wifi, history, bounds
  <2>3. QED
    BY <2>1, <2>2
<1>2. CASE Probe
  <2>1. CASE End("1")
    BY <1>2, <2>1, EndFact DEF Probe, wifi, history, bounds
  <2>2. CASE ~End("1")
    BY <1>2, <2>2 DEF Probe, AcceptedConfigurationBuilds, Timing, Remembered,
      wifi, history, bounds
  <2>3. QED
    BY <2>1, <2>2
<1>3. CASE Initialize
  <2>1. CASE End("1") /\ UNCHANGED <<waited, history>>
    BY <1>3, <2>1, EndFact DEF Initialize, wifi, history, bounds
  <2>2. ASSUME ~(End("1") /\ UNCHANGED <<waited, history>>) PROVE IInv'
    <3>1. pc' \in Starting \cup Serving /\ pc' # "mark"
      BY <1>3, <2>2 DEF Initialize
    <3>2. /\ pc = "initialize" /\ waited' = 0 /\ failed' = file.reauth
          /\ inTime' = FALSE /\ missed' = FALSE
          /\ UNCHANGED <<code, settings, services, joined, file, wifi, bounds>>
      BY <1>3, <2>2 DEF Initialize
    <3>3. failed' \in BOOLEAN
      BY <3>2 DEF OperatorState
    <3>4. TypeOK'
      BY <3>1, <3>2, <3>3 DEF wifi, bounds
    <3>5. AcceptedConfigurationBuilds'
      BY <1>3, <3>1, <3>2 DEF AcceptedConfigurationBuilds
    <3>6. Timing'
      BY <1>3, <2>2 DEF Timing, Initialize, wifi, history, bounds
    <3>7. Remembered'
      BY <1>3, <2>2 DEF Remembered, Initialize, wifi, history, bounds
    <3>8. QED
      BY <3>4, <3>5, <3>6, <3>7
  <2>3. QED
    BY <2>1, <2>2
<1>4. ASSUME Joins 
     PROVE  Connections' /\ UNCHANGED <<timers, waited, bounds>> /\ pc \in {"look", "poll"}
              => IInv'
  <2>1. MarkSetupRequested(file, FALSE, "client") \in OperatorState
    BY MarkSetupFact DEF WifiModes
  <2> SUFFICES ASSUME Connections', UNCHANGED <<timers, waited, bounds>>, pc \in {"look", "poll"}
               PROVE  IInv'
    OBVIOUS
  <2>2. TypeOK'
    BY <1>4, <2>1 DEF Joins, End, Connections, history, bounds
  <2>3. AcceptedConfigurationBuilds'
    BY <1>4, <2>1 DEF AcceptedConfigurationBuilds, Joins, End, Connections, history, bounds
  <2>4. Timing'
    BY <1>4, <2>1 DEF Timing, Joins, End, Connections, history, bounds
  <2>5. Remembered'
    BY <1>4, <2>1 DEF Remembered, Joins, End, Connections, history, bounds
  <2>6. QED
    BY <2>2, <2>3, <2>4, <2>5
<1>5. CASE Look
  <2>0. pc = "look"
    BY <1>5 DEF Look
  <2>1. Connections' /\ UNCHANGED <<timers, waited, bounds>>
    BY <1>0, <1>5, StatusFact, HelperFailsFact DEF Look
  <2>2. CASE Joins
    BY <1>4, <1>5, <2>1, <2>2 DEF Look
  <2>3. CASE HelperFails /\ GivesUp
    BY <1>5, <2>1, <2>3 DEF Look, GivesUp, AcceptedConfigurationBuilds, Timing,
      Remembered, Connections, bounds
  <2>4. CASE GoesOn("hotspot", FALSE \notin HasClientConfig)
    <3>0. /\ pc' = "hotspot" /\ UNCHANGED <<code, settings, services, file, failed, joined>>
          /\ inTime' \in BOOLEAN /\ missed' \in BOOLEAN /\ (missed' <=> missed \/ (FALSE \notin HasClientConfig))
          /\ inTime' => inTime /\ active' = "client"
      <4>1. (FALSE \notin HasClientConfig) \in BOOLEAN
        OBVIOUS
      <4>2. QED
        BY <2>4, <4>1, GoesOnFact
    <3>t. TypeOK'
      BY <2>0, <2>1, <3>0 DEF Connections, bounds
    <3>c. AcceptedConfigurationBuilds'
      BY <2>0, <3>0 DEF AcceptedConfigurationBuilds
    <3>r. Remembered'
      BY <3>0 DEF Remembered
    <3>1. ~saved' \/ trial' # "none" \/ FALSE \notin HasClientConfig
      BY <2>1, <2>4 DEF HasClientConfig, Connections
    <3>2. Timing'
      BY <1>5, <2>0, <3>0, <3>1 DEF Timing, Look
    <3>3. QED
      BY <3>t, <3>c, <3>r, <3>2
  <2>5. CASE GoesOn("grace", active' = "client")
    <3>0. /\ pc' = "grace" /\ UNCHANGED <<code, settings, services, file, failed, joined>>
          /\ inTime' \in BOOLEAN /\ missed' \in BOOLEAN /\ (missed' <=> missed \/ (active' = "client"))
          /\ inTime' => inTime /\ active' = "client"
      <4>1. (active' = "client") \in BOOLEAN
        OBVIOUS
      <4>2. QED
        BY <2>5, <4>1, GoesOnFact
    <3>t. TypeOK'
      BY <2>0, <2>1, <3>0 DEF Connections, bounds
    <3>c. AcceptedConfigurationBuilds'
      BY <2>0, <3>0 DEF AcceptedConfigurationBuilds
    <3>r. Remembered'
      BY <3>0 DEF Remembered
    <3>1. Timing'
      BY <1>5, <2>0, <3>0 DEF Timing, Look
    <3>2. QED
      BY <3>t, <3>c, <3>r, <3>1
  <2>6. QED
    BY <1>5, <2>2, <2>3, <2>4, <2>5 DEF Look
<1>6. CASE Grace
  <2>1. waited' \in Nat
    <3>1. waited' = waited + 1 \/ waited' = waited
      BY <1>6 DEF Grace
    <3>2. waited \in Nat
      OBVIOUS
    <3> HIDE DEF IInv, TypeOK
    <3>3. QED
      BY <3>1, <3>2
  <2>2. TypeOK'
    <3>1. GoesOn("poll", FALSE) \/ GoesOn("hotspot", FALSE)
      BY <1>6 DEF Grace
    <3>2. /\ pc' \in {"poll", "hotspot"} /\ UNCHANGED <<code, settings, services, file, failed, joined>>
          /\ inTime' \in BOOLEAN /\ missed' \in BOOLEAN
      BY <3>1, GoesOnFact
    <3>3. pc = "grace" /\ UNCHANGED <<wifi, bounds>>
      BY <1>6 DEF Grace
    <3>4. QED
      BY <2>1, <3>2, <3>3 DEF wifi, bounds
  <2>3. AcceptedConfigurationBuilds'
    BY <1>6, <2>1 DEF AcceptedConfigurationBuilds, Grace, GoesOn, wifi, history, bounds
  <2>4. Timing'
    BY <1>6, <2>1 DEF Timing, Grace, GoesOn, wifi, history, bounds, InGrace, Within
  <2>5. Remembered'
    BY <1>6, <2>1 DEF Remembered, Grace, GoesOn, wifi, history, bounds
  <2>6. QED
    BY <2>2, <2>3, <2>4, <2>5
<1>7. CASE Poll
  <2>0. pc = "poll"
    BY <1>7 DEF Poll
  <2>1. Connections' /\ UNCHANGED <<timers, waited, bounds>>
    BY <1>0, <1>7, StatusFact, HelperFailsFact DEF Poll
  <2>2. CASE Joins
    BY <1>4, <1>7, <2>1, <2>2 DEF Poll
  <2>3. CASE HelperFails /\ GivesUp
    BY <1>7, <2>1, <2>3 DEF Poll, GivesUp, AcceptedConfigurationBuilds, Timing,
      Remembered, Connections, bounds
  <2>4. CASE active' = "ap" /\ GoesOn("mark", FALSE)
    <3>0. /\ pc' = "mark" /\ UNCHANGED <<code, settings, services, file, failed, joined>>
          /\ inTime' \in BOOLEAN /\ missed' \in BOOLEAN /\ (missed' <=> missed \/ (FALSE))
          /\ inTime' => inTime /\ active' = "client"
      <4>1. (FALSE) \in BOOLEAN
        OBVIOUS
      <4>2. QED
        BY <2>4, <4>1, GoesOnFact
    <3>t. TypeOK'
      BY <2>0, <2>1, <3>0 DEF Connections, bounds
    <3>c. AcceptedConfigurationBuilds'
      BY <2>0, <3>0 DEF AcceptedConfigurationBuilds
    <3>r. Remembered'
      BY <3>0 DEF Remembered
    <3>1. Timing'
      BY <1>7, <2>0, <3>0 DEF Timing, Poll
    <3>2. QED
      BY <3>t, <3>c, <3>r, <3>1
  <2>6. CASE GoesOn("grace", active' # "none")
    <3>0. /\ pc' = "grace" /\ UNCHANGED <<code, settings, services, file, failed, joined>>
          /\ inTime' \in BOOLEAN /\ missed' \in BOOLEAN /\ (missed' <=> missed \/ (active' # "none"))
          /\ inTime' => inTime /\ active' = "client"
      <4>1. (active' # "none") \in BOOLEAN
        OBVIOUS
      <4>2. QED
        BY <2>6, <4>1, GoesOnFact
    <3>t. TypeOK'
      BY <2>0, <2>1, <3>0 DEF Connections, bounds
    <3>c. AcceptedConfigurationBuilds'
      BY <2>0, <3>0 DEF AcceptedConfigurationBuilds
    <3>r. Remembered'
      BY <3>0 DEF Remembered
    <3>1. Timing'
      BY <1>7, <2>1, <2>0, <3>0 DEF Timing, Poll, Connections
    <3>2. QED
      BY <3>t, <3>c, <3>r, <3>1
  <2>5. QED
    BY <1>7, <2>2, <2>3, <2>4, <2>6 DEF Poll
<1>8. CASE Hotspot
  <2>1. Connections' /\ UNCHANGED <<timers, waited, bounds>>
    BY <1>0, <1>8, StartApFact, HelperFailsFact DEF Hotspot
  <2>2. QED
    BY <1>8, <2>1 DEF Hotspot, GivesUp, GoesOn, AcceptedConfigurationBuilds, Timing,
      Remembered, Connections, history, bounds
<1>9. CASE Mark
  <2>1. LET marked == MarkSetupRequested(file, TRUE, "setup_ap")
        IN marked \in OperatorState /\ marked.setup = TRUE
    BY MarkSetupFact DEF WifiModes
  <2>2. TypeOK'
    <3>1. pc' \in Starting \cup Serving \cup {"off", "leave"}
      BY <1>9, <2>1 DEF Mark, End, wifi, history, bounds
    <3>2. settings' \in {NoSettings} \cup (Outcomes \ {Invalid})
      BY <1>9, <2>1 DEF Mark, End, wifi, history, bounds
    <3>3. services' \subseteq {"server", "idle", "health"}
      BY <1>9, <2>1 DEF Mark, End, wifi, history, bounds
    <3>4. timers' \in 0..deeds' /\ (timers' > 0 => pc' \in Serving \cup {"leave"})
      BY <1>9, <2>1 DEF Mark, End, wifi, history, bounds
    <3>5. code' \in {"none", "0", "1", "2", "130"} /\ file' \in OperatorState
      BY <1>9, <2>1 DEF Mark, End, wifi, history, bounds
    <3>6. QED
      BY <3>1, <3>2, <3>3, <3>4, <3>5,
        <1>9, <2>1 DEF Mark, End, wifi, history, bounds
  <2>3. AcceptedConfigurationBuilds'
    BY <1>9, <2>1 DEF AcceptedConfigurationBuilds, Mark, End, wifi, history, bounds
  <2>4. Timing'
    BY <1>9, <2>1 DEF Timing, Mark, End, wifi, history, bounds
  <2>5. Remembered'
    BY <1>9, <2>1 DEF Remembered, Mark, End, wifi, history, bounds
  <2>6. QED
    BY <2>2, <2>3, <2>4, <2>5
<1>10. CASE StartServer
  <2>1. TypeOK'
    <3>1. pc' \in Starting \cup Serving \cup {"off", "leave"}
      BY <1>10 DEF StartServer, Leaves, wifi, history, bounds
    <3>2. settings' \in {NoSettings} \cup (Outcomes \ {Invalid})
      BY <1>10 DEF StartServer, Leaves, wifi, history, bounds
    <3>3. services' \subseteq {"server", "idle", "health"}
      BY <1>10 DEF StartServer, Leaves, wifi, history, bounds
    <3>4. timers' \in 0..deeds' /\ (timers' > 0 => pc' \in Serving \cup {"leave"})
      BY <1>10 DEF StartServer, Leaves, wifi, history, bounds
    <3>5. QED
      BY <3>1, <3>2, <3>3, <3>4, <1>10 DEF StartServer, Leaves, wifi, history, bounds
  <2>2. AcceptedConfigurationBuilds'
    BY <1>10 DEF AcceptedConfigurationBuilds, StartServer, Leaves, wifi, history, bounds
  <2>3. Timing'
    BY <1>10 DEF Timing, StartServer, Leaves, wifi, history, bounds
  <2>4. Remembered'
    BY <1>10 DEF Remembered, StartServer, Leaves, wifi, history, bounds
  <2>5. QED
    BY <2>1, <2>2, <2>3, <2>4
<1>11. CASE StartIdle
  BY <1>11 DEF StartIdle, AcceptedConfigurationBuilds, Timing, Remembered,
    wifi, history, bounds
<1>12. CASE FirstPoll
  <2>1. /\ Connections' /\ UNCHANGED timers
        /\ active' = "ap" => active = "ap"
        /\ file' \in OperatorState /\ file'.setup = file.setup
    BY <1>0, <1>12, SetupStatusFact DEF FirstPoll
  <2>2. /\ services' \subseteq {"server", "idle", "health"}
        /\ pc' \in {"scan", "leave"} /\ code' \in {"none", "0", "1", "2", "130"}
        /\ UNCHANGED <<settings, waited, history, bounds>> /\ pc = "health"
    BY <1>12 DEF FirstPoll, Leaves
  <2>3. QED
    BY <2>1, <2>2 DEF Connections, AcceptedConfigurationBuilds, Timing, Remembered,
      history, bounds
<1>13. ASSUME NEW service \in {"health", "server"}, StatusAsked(service) PROVE IInv'
  <2>1. /\ Connections' /\ UNCHANGED timers
        /\ active' = "ap" => active = "ap"
        /\ file' \in OperatorState /\ file'.setup = file.setup
    BY <1>0, <1>13, SetupStatusFact DEF StatusAsked
  <2>2. /\ services' \subseteq services /\ services # {}
        /\ UNCHANGED <<pc, code, settings, waited, history, bounds>>
    BY <1>13 DEF StatusAsked
  <2>3. QED
    BY <2>1, <2>2 DEF Connections, AcceptedConfigurationBuilds, Timing, Remembered,
      history, bounds
<1>14. CASE ApplyRequest
  <2>1. /\ Connections' /\ timers' \in {timers, timers + 1}
        /\ active' = "ap" => active = "ap"
    BY <1>0, <1>14, ApplyClientFact, HelperFailsFact DEF ApplyRequest
  <2>2. /\ deeds < MaxDeeds /\ deeds' = deeds + 1 /\ services # {}
        /\ UNCHANGED <<run, file, waited, failed, inTime, missed, stops>> /\ joined' \in BOOLEAN
    BY <1>14 DEF ApplyRequest
  <2>3. deeds' \in 0..MaxDeeds /\ timers' \in 0..deeds'
    BY <2>1, <2>2, BoundsAssumption
  <2>4. QED
    BY <2>1, <2>2, <2>3 DEF Connections, AcceptedConfigurationBuilds, Timing, Remembered, run
<1>15. CASE StartAuth
  <2>1. file' \in OperatorState /\ file'.setup = file.setup
    BY <1>15 DEF StartAuth, OperatorState, MarkReauthRequested, MarkReauthStarted
  <2>2. QED
    BY <1>15, <2>1 DEF StartAuth, AcceptedConfigurationBuilds, Timing, Remembered,
      run, wifi, history, bounds
<1>16. CASE ResetCard
  <2>1. Connections' /\ timers' \in {timers, timers + 1}
    BY <1>0, <1>16, ResetClientFact, HelperFailsFact DEF ResetCard
  <2>2. /\ deeds < MaxDeeds /\ deeds' = deeds + 1
        /\ UNCHANGED <<code, settings, services, file, waited, failed, inTime, missed, stops>>
        /\ joined' \in BOOLEAN /\ pc = "scan" /\ pc' \in {"scan", "reset"}
    BY <1>16 DEF ResetCard
  <2>3. deeds' \in 0..MaxDeeds /\ timers' \in 0..deeds'
    BY <2>1, <2>2, BoundsAssumption
  <2>4. pc' = "scan" /\ active' = "ap" => active = "ap"
    BY <1>0, <1>16, HelperFailsFact DEF ResetCard
  <2>5. QED
    BY <2>1, <2>2, <2>3, <2>4 DEF Connections, AcceptedConfigurationBuilds, Timing, Remembered
<1>17. CASE MarkReset
  <2>1. LET marked == MarkSetupRequested(file, TRUE, "setup_ap")
        IN marked \in OperatorState /\ marked.setup = TRUE
    BY MarkSetupFact DEF WifiModes
  <2>2. TypeOK'
    <3>1. pc' \in Starting \cup Serving \cup {"off", "leave"}
      BY <1>17, <2>1 DEF MarkReset, Leaves, wifi, history, bounds
    <3>2. settings' \in {NoSettings} \cup (Outcomes \ {Invalid})
      BY <1>17, <2>1 DEF MarkReset, Leaves, wifi, history, bounds
    <3>3. services' \subseteq {"server", "idle", "health"}
      BY <1>17, <2>1 DEF MarkReset, Leaves, wifi, history, bounds
    <3>4. timers' \in 0..deeds' /\ (timers' > 0 => pc' \in Serving \cup {"leave"})
      BY <1>17, <2>1 DEF MarkReset, Leaves, wifi, history, bounds
    <3>5. code' \in {"none", "0", "1", "2", "130"} /\ file' \in OperatorState
      BY <1>17, <2>1 DEF MarkReset, Leaves, wifi, history, bounds
    <3>6. QED
      BY <3>1, <3>2, <3>3, <3>4, <3>5,
        <1>17, <2>1 DEF MarkReset, Leaves, wifi, history, bounds
  <2>3. AcceptedConfigurationBuilds'
    BY <1>17, <2>1 DEF AcceptedConfigurationBuilds, MarkReset, Leaves, wifi, history, bounds
  <2>4. Timing'
    BY <1>17, <2>1 DEF Timing, MarkReset, Leaves, wifi, history, bounds
  <2>5. Remembered'
    BY <1>17, <2>1 DEF Remembered, MarkReset, Leaves, wifi, history, bounds
  <2>6. QED
    BY <2>2, <2>3, <2>4, <2>5
<1>18. CASE ReauthCard
  <2>1. file' \in OperatorState /\ file'.setup = file.setup
    BY <1>18 DEF ReauthCard, OperatorState, MarkReauthRequested
  <2>2. TypeOK'
    <3>1. pc' \in Starting \cup Serving \cup {"off", "leave"}
      BY <1>18, <2>1 DEF ReauthCard, Leaves, run, wifi, history, bounds
    <3>2. settings' \in {NoSettings} \cup (Outcomes \ {Invalid})
      BY <1>18, <2>1 DEF ReauthCard, Leaves, run, wifi, history, bounds
    <3>3. services' \subseteq {"server", "idle", "health"}
      BY <1>18, <2>1 DEF ReauthCard, Leaves, run, wifi, history, bounds
    <3>4. timers' \in 0..deeds' /\ (timers' > 0 => pc' \in Serving \cup {"leave"})
      BY <1>18, <2>1 DEF ReauthCard, Leaves, run, wifi, history, bounds
    <3>5. code' \in {"none", "0", "1", "2", "130"} /\ file' \in OperatorState
      BY <1>18, <2>1 DEF ReauthCard, Leaves, run, wifi, history, bounds
    <3>6. QED
      BY <3>1, <3>2, <3>3, <3>4, <3>5,
        <1>18, <2>1 DEF ReauthCard, Leaves, run, wifi, history, bounds
  <2>3. AcceptedConfigurationBuilds'
    BY <1>18, <2>1 DEF AcceptedConfigurationBuilds, ReauthCard, Leaves, run, wifi, history, bounds
  <2>4. Timing'
    BY <1>18, <2>1 DEF Timing, ReauthCard, Leaves, run, wifi, history, bounds
  <2>5. Remembered'
    BY <1>18, <2>1 DEF Remembered, ReauthCard, Leaves, run, wifi, history, bounds
  <2>6. QED
    BY <2>2, <2>3, <2>4, <2>5
<1>19. CASE Eof \/ Interrupt
  BY <1>19 DEF Eof, Interrupt, Leaves, AcceptedConfigurationBuilds, Timing, Remembered,
    wifi, history, bounds
<1>20. CASE Leave
  <2>1. TypeOK'
    <3>1. pc' \in Starting \cup Serving \cup {"off", "leave"}
      BY <1>20 DEF Leave, End, history, bounds
    <3>2. settings' \in {NoSettings} \cup (Outcomes \ {Invalid})
      BY <1>20 DEF Leave, End, history, bounds
    <3>3. services' \subseteq {"server", "idle", "health"}
      BY <1>20 DEF Leave, End, history, bounds
    <3>4. timers' \in 0..deeds' /\ (timers' > 0 => pc' \in Serving \cup {"leave"})
      BY <1>20 DEF Leave, End, history, bounds
    <3>5. code' \in {"none", "0", "1", "2", "130"} /\ file' \in OperatorState
      BY <1>20 DEF Leave, End, history, bounds
    <3>6. QED
      BY <3>1, <3>2, <3>3, <3>4, <3>5,
        <1>20 DEF Leave, End, history, bounds
  <2>2. AcceptedConfigurationBuilds'
    BY <1>20 DEF AcceptedConfigurationBuilds, Leave, End, history, bounds
  <2>3. Timing'
    BY <1>20 DEF Timing, Leave, End, history, bounds
  <2>4. Remembered'
    BY <1>20 DEF Remembered, Leave, End, history, bounds
  <2>5. QED
    BY <2>1, <2>2, <2>3, <2>4
<1>21. CASE Fire
  <2>1. PICK links \in RolledBack(Here) \cup Stuck(Here) : Becomes(links)
    BY <1>21 DEF Fire
  <2>2. links \in Links /\ (links.active = "ap" => active = "ap")
    BY <1>0, HereFact, RolledBackFact
  <2>3. Connections' /\ (active' = "ap" => active = "ap")
    BY <2>1, <2>2, BecomesFact
  <2>4. pc \in Serving \cup {"leave"} /\ timers' \in 0..deeds
    BY <1>21 DEF Fire
  <2>5. UNCHANGED <<run, file, waited, history, bounds>>
    BY <1>21 DEF Fire
  <2>6. QED
    BY <2>3, <2>4, <2>5 DEF Connections, AcceptedConfigurationBuilds, Timing, Remembered,
      run, history, bounds
<1>22. CASE Expire
  <2>1. TypeOK'
    BY <1>22 DEF Expire, run, history, bounds
  <2>2. AcceptedConfigurationBuilds'
    BY <1>22 DEF AcceptedConfigurationBuilds, Expire, run, history, bounds
  <2>3. Timing'
    BY <1>22 DEF Timing, Expire, run, history, bounds, InGrace, Within
  <2>4. Remembered'
    BY <1>22 DEF Remembered, Expire, run, history, bounds
  <2>5. QED
    BY <2>1, <2>2, <2>3, <2>4
<1>23. CASE Autoconnect
  <2>1. inTime' \in BOOLEAN
    BY <1>23 DEF Autoconnect
  <2>2. InGrace' = InGrace
    BY <1>23 DEF Autoconnect, InGrace, Within, run
  <2>3. QED
    BY <1>23, <2>1, <2>2 DEF Autoconnect, AcceptedConfigurationBuilds, Timing, Remembered,
      run, history, bounds
<1>24. CASE Outage
  <2>1. TypeOK'
    <3>1. pc' \in Starting \cup Serving \cup {"off", "leave"}
      BY <1>24 DEF Outage, run, history, bounds
    <3>2. settings' \in {NoSettings} \cup (Outcomes \ {Invalid})
      BY <1>24 DEF Outage, run, history, bounds
    <3>3. services' \subseteq {"server", "idle", "health"}
      BY <1>24 DEF Outage, run, history, bounds
    <3>4. timers' \in 0..deeds' /\ (timers' > 0 => pc' \in Serving \cup {"leave"})
      BY <1>24 DEF Outage, run, history, bounds
    <3>5. QED
      BY <3>1, <3>2, <3>3, <3>4, <1>24 DEF Outage, run, history, bounds
  <2>2. AcceptedConfigurationBuilds'
    BY <1>24 DEF AcceptedConfigurationBuilds, Outage, run, history, bounds
  <2>3. Timing'
    BY <1>24 DEF Timing, Outage, run, history, bounds, InGrace, Within
  <2>4. Remembered'
    BY <1>24 DEF Remembered, Outage, run, history, bounds
  <2>5. QED
    BY <2>1, <2>2, <2>3, <2>4
<1>25. ASSUME NEW reboot \in BOOLEAN, Stop(reboot) PROVE IInv'
  <2>1. stops' \in 0..MaxStops
    BY <1>25, BoundsAssumption DEF Stop
  <2>2. TypeOK'
    <3>1. pc' \in Starting \cup Serving \cup {"off", "leave"}
      BY <1>25, <2>1 DEF Stop, End, history
    <3>2. settings' \in {NoSettings} \cup (Outcomes \ {Invalid})
      BY <1>25, <2>1 DEF Stop, End, history
    <3>3. services' \subseteq {"server", "idle", "health"}
      BY <1>25, <2>1 DEF Stop, End, history
    <3>4. timers' \in 0..deeds' /\ (timers' > 0 => pc' \in Serving \cup {"leave"})
      BY <1>25, <2>1 DEF Stop, End, history
    <3>5. QED
      BY <3>1, <3>2, <3>3, <3>4, <1>25, <2>1 DEF Stop, End, history
  <2>3. AcceptedConfigurationBuilds'
    BY <1>25, <2>1 DEF AcceptedConfigurationBuilds, Stop, End, history
  <2>4. Timing'
    BY <1>25, <2>1 DEF Timing, Stop, End, history
  <2>5. Remembered'
    BY <1>25, <2>1 DEF Remembered, Stop, End, history
  <2>6. QED
    BY <2>2, <2>3, <2>4, <2>5
<1>26. CASE UNCHANGED vars
  BY <1>26 DEF vars, AcceptedConfigurationBuilds, Timing, Remembered, InGrace, Within,
    run, wifi, history, bounds
<1>27. QED
  BY <1>1, <1>2, <1>3, <1>5, <1>6, <1>7, <1>8, <1>9, <1>10, <1>11, <1>12, <1>13, <1>14,
    <1>15, <1>16, <1>17, <1>18, <1>19, <1>20, <1>21, <1>22, <1>23, <1>24, <1>25, <1>26
    DEF Next, Boots

-----------------------------------------------------------------------------
(***************************************************************************)
(* The theorems.                                                           *)
(***************************************************************************)
\* The inductive invariant holds always.
THEOREM Invariance == Spec => []IInv
PROOF
  <1>1. QED
    BY InitIInv, NextIInv, PTL DEF Spec

\* Every variable keeps its type; a run that is over has left no service behind.
THEOREM TypeCorrect == Spec => []TypeOK
PROOF
  <1>1. IInv => TypeOK
    BY DEF IInv
  <1>2. QED
    BY <1>1, Invariance, PTL

\* A configuration that from_env accepts passes build_runtime's assertions.
THEOREM ConfigurationSafety == Spec => []AcceptedConfigurationBuilds
PROOF
  <1>1. IInv => AcceptedConfigurationBuilds
    BY DEF IInv
  <1>2. QED
    BY <1>1, Invariance, PTL

\* Where the box serves with its access point up, the state file says so, or
\* initialize() has given up.
THEOREM SetupSafety == Spec => []SetupRemembered
PROOF
  <1>1. IInv => SetupRemembered
    BY DEF IInv, Remembered, SetupRemembered, Serving
  <1>2. QED
    BY <1>1, Invariance, PTL

\* No boot takes up its access point while a network that has come back within the
\* grace period is up, nor before the period is over without one of the reasons,
\* but for a look that was shown no connection where there was one.
THEOREM FallbackSafety == Spec => ApOnlyWhenDue
PROOF
  <1>1. IInv /\ [Next]_vars
          => [pc = "hotspot" /\ active # "ap" /\ active' = "ap"
                => missed \/ (~inTime /\ (file.setup \/ ~saved \/ trial # "none" \/ ~InGrace))]_vars
    BY DEF IInv, Timing
  <1>2. QED
    BY <1>1, Invariance, PTL DEF Spec, ApOnlyWhenDue

=============================================================================
