------------------------- MODULE EpollPollerProofs -------------------------
(***************************************************************************)
(* Proofs about module EpollPoller, for any set of channels and            *)
(* descriptors: m_index and m_channel_map agree with the kernel, no        *)
(* epoll_ctl fails, and the event list does not grow beyond what the open  *)
(* descriptors can fill.                                                   *)
(***************************************************************************)
EXTENDS EpollPoller, FiniteSetTheorems, TLAPS

\* TypeOK without the size of the event list, which no other part depends on.
PollerTypes ==
  /\ life \in [Channels -> {"unborn", "live", "closed"}]
  /\ fdOf \in [Channels -> Fds]
  /\ events \in [Channels -> SUBSET Interest]
  /\ index \in [Channels -> {"kNew", "kAdded", "kDeleted"}]
  /\ channelMap \in [Fds -> Channels \cup {NoChannel}]
  /\ registered \in [Fds -> Channels \cup {NoChannel}]
  /\ interest \in [Fds -> SUBSET Interest]
  /\ failed \in BOOLEAN

\* Only live channels are known to the poller.
KnownLive == \A ch \in Channels : index[ch] # "kNew" => life[ch] = "live"

\* Two live channels have different descriptors.
LiveFdsDiffer ==
  \A c, d \in Channels :
    c # d /\ life[c] = "live" /\ life[d] = "live" => fdOf[c] # fdOf[d]

\* A channel is found under its own descriptor only.
OwnFd ==
  \A fd \in Fds :
    /\ registered[fd] # NoChannel => fdOf[registered[fd]] = fd
    /\ channelMap[fd] # NoChannel => fdOf[channelMap[fd]] = fd

\* The inductive invariant.
PollerInv ==
  /\ PollerTypes
  /\ KnownLive
  /\ LiveFdsDiffer
  /\ OwnFd
  /\ IndexTellsEpoll
  /\ MapTellsIndex
  /\ NoEpollFailure

-----------------------------------------------------------------------------
(* updateChannel on a live channel that is not in the epoll set finds the  *)
(* descriptor free, and in m_channel_map at most the channel itself: the   *)
(* ADD of updateChannel cannot fail.                                       *)
LEMMA FdFree ==
  ASSUME PollerInv, NEW ch \in Channels, life[ch] = "live"
  PROVE  /\ index[ch] # "kAdded" => registered[fdOf[ch]] = NoChannel
         /\ channelMap[fdOf[ch]] \in {ch, NoChannel}
  <1>1. fdOf[ch] \in Fds
    BY DEF PollerInv, PollerTypes
  <1>2. ASSUME NEW d \in Channels, d # ch,
               registered[fdOf[ch]] = d \/ channelMap[fdOf[ch]] = d
        PROVE  FALSE
    <2>1. d # NoChannel
      BY EpollAssumption
    <2>2. fdOf[d] = fdOf[ch]
      BY <1>1, <1>2, <2>1 DEF PollerInv, OwnFd
    <2>3. index[d] # "kNew"
      BY <1>2, <2>2 DEF PollerInv, IndexTellsEpoll, MapTellsIndex
    <2>4. life[d] = "live"
      BY <2>3 DEF PollerInv, KnownLive
    <2> QED
      BY <1>2, <2>2, <2>4 DEF PollerInv, LiveFdsDiffer
  <1>3. registered[fdOf[ch]] \in {ch, NoChannel} /\ channelMap[fdOf[ch]] \in {ch, NoChannel}
    BY <1>1, <1>2 DEF PollerInv, PollerTypes
  <1>4. index[ch] # "kAdded" => registered[fdOf[ch]] # ch
    BY DEF PollerInv, IndexTellsEpoll
  <1> QED
    BY <1>3, <1>4

(* The initial states satisfy the invariant: the poller knows no channel.  *)
LEMMA PollerInvInit == Init => PollerInv
  <1> SUFFICES ASSUME Init
               PROVE  PollerInv
    OBVIOUS
  <1>1. PollerTypes
    BY EpollAssumption DEF Init, PollerTypes, Interest
  <1>2. KnownLive /\ LiveFdsDiffer /\ OwnFd
    BY EpollAssumption DEF Init, KnownLive, LiveFdsDiffer, OwnFd
  <1>3. IndexTellsEpoll /\ MapTellsIndex /\ NoEpollFailure
    BY EpollAssumption DEF Init, IndexTellsEpoll, MapTellsIndex, NoEpollFailure, Interest
  <1> QED
    BY <1>1, <1>2, <1>3 DEF PollerInv

(* Enabling or disabling events preserves the invariant, whichever of ADD, *)
(* MOD and DEL updateChannel chooses.                                      *)
LEMMA UpdateStep ==
  ASSUME PollerInv, NEW ch \in Channels, NEW ev \in SUBSET Interest, Update(ch, ev)
  PROVE  PollerInv'
  <1> DEFINE fd == fdOf[ch]
  <1>1. /\ fd \in Fds /\ ch # NoChannel /\ life[ch] = "live"
        /\ life' = life /\ fdOf' = fdOf
        /\ events' = [events EXCEPT ![ch] = ev]
        /\ UpdateChannel(ch, ev)
    BY EpollAssumption DEF PollerInv, PollerTypes, Update
  <1>2. CASE index[ch] # "kAdded"
    <2>1. /\ registered' = [registered EXCEPT ![fd] = ch]
          /\ interest' = [interest EXCEPT ![fd] = ev]
          /\ failed' = failed
          /\ channelMap' = [channelMap EXCEPT ![fd] = ch]
          /\ index' = [index EXCEPT ![ch] = "kAdded"]
      <3>1. registered[fd] = NoChannel
        BY <1>1, <1>2, FdFree
      <3>2. index[ch] = "kNew" \/ channelMap[fd] = ch
        BY <1>1 DEF PollerInv, MapTellsIndex
      <3>3. channelMap' = [channelMap EXCEPT ![fd] = ch]
        BY <1>1, <1>2, <3>2 DEF UpdateChannel, PollerInv, PollerTypes
      <3> QED
        BY <1>1, <1>2, <3>1, <3>3 DEF UpdateChannel, EpollCtlAdd
    <2>2. registered[fd] \in {ch, NoChannel} /\ channelMap[fd] \in {ch, NoChannel}
      BY <1>1, <1>2, FdFree
    <2>3. PollerTypes'
      BY <1>1, <2>1 DEF PollerInv, PollerTypes
    <2>4. KnownLive' /\ LiveFdsDiffer' /\ NoEpollFailure'
      BY <1>1, <2>1 DEF PollerInv, PollerTypes, KnownLive, LiveFdsDiffer, NoEpollFailure
    <2>5. OwnFd'
      BY <1>1, <2>1 DEF PollerInv, PollerTypes, OwnFd
    <2>6. IndexTellsEpoll'
      BY <1>1, <2>1, <2>2, EpollAssumption
      DEF PollerInv, PollerTypes, IndexTellsEpoll, OwnFd
    <2>7. MapTellsIndex'
      BY <1>1, <2>1, <2>2, EpollAssumption
      DEF PollerInv, PollerTypes, MapTellsIndex, OwnFd
    <2> QED
      BY <2>3, <2>4, <2>5, <2>6, <2>7 DEF PollerInv
  <1>3. CASE index[ch] = "kAdded" /\ ev = {}
    <2>1. registered[fd] = ch
      BY <1>1, <1>3 DEF PollerInv, IndexTellsEpoll
    <2>2. /\ registered' = [registered EXCEPT ![fd] = NoChannel]
          /\ interest' = [interest EXCEPT ![fd] = {}]
          /\ failed' = failed
          /\ channelMap' = channelMap
          /\ index' = [index EXCEPT ![ch] = "kDeleted"]
      BY <1>1, <1>3, <2>1 DEF UpdateChannel, EpollCtlDel
    <2>3. PollerTypes'
      BY <1>1, <2>2 DEF PollerInv, PollerTypes
    <2>4. KnownLive' /\ LiveFdsDiffer' /\ NoEpollFailure'
      BY <1>1, <2>2 DEF PollerInv, PollerTypes, KnownLive, LiveFdsDiffer, NoEpollFailure
    <2>5. OwnFd'
      BY <1>1, <2>2 DEF PollerInv, PollerTypes, OwnFd
    <2>6. IndexTellsEpoll'
      BY <1>1, <2>1, <2>2, EpollAssumption DEF PollerInv, PollerTypes, IndexTellsEpoll
    <2>7. MapTellsIndex'
      BY <1>1, <1>3, <2>2 DEF PollerInv, PollerTypes, MapTellsIndex
    <2> QED
      BY <2>3, <2>4, <2>5, <2>6, <2>7 DEF PollerInv
  <1>4. CASE index[ch] = "kAdded" /\ ev # {}
    <2>1. registered[fd] = ch
      BY <1>1, <1>4 DEF PollerInv, IndexTellsEpoll
    <2>2. /\ registered' = [registered EXCEPT ![fd] = ch]
          /\ interest' = [interest EXCEPT ![fd] = ev]
          /\ failed' = failed
          /\ channelMap' = channelMap
          /\ index' = index
      BY <1>1, <1>4, <2>1 DEF UpdateChannel, EpollCtlMod
    <2>3. registered' = registered
      BY <1>1, <2>1, <2>2 DEF PollerInv, PollerTypes
    <2>4. PollerTypes'
      BY <1>1, <2>2 DEF PollerInv, PollerTypes
    <2>5. KnownLive' /\ LiveFdsDiffer' /\ NoEpollFailure' /\ OwnFd' /\ MapTellsIndex'
      BY <1>1, <2>2, <2>3
      DEF PollerInv, KnownLive, LiveFdsDiffer, NoEpollFailure, OwnFd, MapTellsIndex
    <2>6. IndexTellsEpoll'
      BY <1>1, <2>1, <2>2, <2>3 DEF PollerInv, PollerTypes, IndexTellsEpoll
    <2> QED
      BY <2>4, <2>5, <2>6 DEF PollerInv
  <1> QED
    BY <1>2, <1>3, <1>4

(* Removing a live channel preserves the invariant, whether disableAll was *)
(* called before (kDeleted) or not (kAdded).                               *)
LEMMA RemoveStep ==
  ASSUME PollerInv, NEW ch \in Channels, Remove(ch)
  PROVE  PollerInv'
  <1> DEFINE fd == fdOf[ch]
  <1>1. /\ fd \in Fds /\ ch # NoChannel /\ life[ch] = "live"
        /\ life' = life /\ fdOf' = fdOf /\ events' = events
        /\ channelMap' = [channelMap EXCEPT ![fd] = NoChannel]
        /\ index' = [index EXCEPT ![ch] = "kNew"]
        /\ RemoveChannel(ch)
    BY EpollAssumption DEF PollerInv, PollerTypes, Remove, RemoveChannel
  <1>2. /\ registered' = [registered EXCEPT ![fd] = NoChannel]
        /\ interest' \in [Fds -> SUBSET Interest]
        /\ \A f \in Fds \ {fd} : interest'[f] = interest[f]
        /\ failed' = failed
    <2>1. CASE index[ch] = "kAdded"
      <3>1. registered[fd] = ch
        BY <1>1, <2>1 DEF PollerInv, IndexTellsEpoll
      <3>2. /\ registered' = [registered EXCEPT ![fd] = NoChannel]
            /\ interest' = [interest EXCEPT ![fd] = {}]
            /\ failed' = failed
        BY <1>1, <2>1, <3>1 DEF RemoveChannel, EpollCtlDel
      <3> QED
        BY <1>1, <3>2 DEF PollerInv, PollerTypes
    <2>2. CASE index[ch] # "kAdded"
      <3>1. registered[fd] = NoChannel
        BY <1>1, <2>2, FdFree
      <3> QED
        BY <1>1, <2>2, <3>1 DEF RemoveChannel, PollerInv, PollerTypes
    <2> QED
      BY <2>1, <2>2
  <1>3. registered[fd] \in {ch, NoChannel} /\ channelMap[fd] \in {ch, NoChannel}
    <2>1. index[ch] = "kAdded" => registered[fd] = ch
      BY DEF PollerInv, IndexTellsEpoll
    <2> QED
      BY <1>1, <2>1, FdFree
  <1>4. PollerTypes'
    BY <1>1, <1>2 DEF PollerInv, PollerTypes
  <1>5. KnownLive' /\ LiveFdsDiffer' /\ NoEpollFailure'
    BY <1>1, <1>2 DEF PollerInv, PollerTypes, KnownLive, LiveFdsDiffer, NoEpollFailure
  <1>6. OwnFd'
    BY <1>1, <1>2 DEF PollerInv, PollerTypes, OwnFd
  <1>7. IndexTellsEpoll'
    <2>1. ASSUME NEW c \in Channels
          PROVE  /\ index'[c] = "kAdded" <=> registered'[fdOf[c]] = c
                 /\ index'[c] = "kAdded" => interest'[fdOf[c]] = events[c]
      <3>1. CASE c = ch
        BY <1>1, <1>2, <3>1 DEF PollerInv, PollerTypes
      <3>2. CASE c # ch /\ fdOf[c] # fd
        BY <1>1, <1>2, <3>2 DEF PollerInv, PollerTypes, IndexTellsEpoll
      <3>3. CASE c # ch /\ fdOf[c] = fd
        BY <1>1, <1>2, <1>3, <3>3, EpollAssumption DEF PollerInv, PollerTypes, IndexTellsEpoll
      <3> QED
        BY <3>1, <3>2, <3>3
    <2> QED
      BY <1>1, <2>1 DEF IndexTellsEpoll
  <1>8. MapTellsIndex'
    BY <1>1, <1>3, EpollAssumption DEF PollerInv, PollerTypes, MapTellsIndex
  <1> QED
    BY <1>4, <1>5, <1>6, <1>7, <1>8 DEF PollerInv

(* Closing a removed channel changes nothing in the epoll set: its entry   *)
(* is gone already, and no other live channel has its descriptor.          *)
LEMMA CloseStep ==
  ASSUME PollerInv, NEW ch \in Channels, Close(ch)
  PROVE  PollerInv'
  <1> DEFINE fd == fdOf[ch]
  <1>1. /\ fd \in Fds /\ life[ch] = "live" /\ index[ch] = "kNew"
        /\ life' = [life EXCEPT ![ch] = "closed"]
        /\ interest' = [interest EXCEPT ![fd] = {}]
        /\ UNCHANGED <<fdOf, events, index, channelMap, failed>>
    BY DEF PollerInv, PollerTypes, Close
  <1>2. registered[fd] = NoChannel
    BY <1>1, FdFree
  <1>3. registered' = registered
    BY <1>1, <1>2 DEF Close, PollerInv, PollerTypes
  <1>4. PollerTypes'
    BY <1>1, <1>3 DEF PollerInv, PollerTypes
  <1>5. KnownLive' /\ LiveFdsDiffer' /\ NoEpollFailure' /\ OwnFd' /\ MapTellsIndex'
    BY <1>1, <1>3
    DEF PollerInv, PollerTypes, KnownLive, LiveFdsDiffer, NoEpollFailure, OwnFd, MapTellsIndex
  <1>6. IndexTellsEpoll'
    BY <1>1, <1>2, <1>3, EpollAssumption DEF PollerInv, PollerTypes, IndexTellsEpoll
  <1> QED
    BY <1>4, <1>5, <1>6 DEF PollerInv

(* Every step preserves the invariant.                                     *)
LEMMA PollerInvStep == PollerInv /\ [Next]_vars => PollerInv'
  <1> SUFFICES ASSUME PollerInv, [Next]_vars
               PROVE  PollerInv'
    OBVIOUS
  <1>1. ASSUME NEW ch \in Channels, Create(ch)
        PROVE  PollerInv'
    <2>1. PollerTypes' /\ KnownLive' /\ LiveFdsDiffer'
      BY <1>1 DEF Create, pollerVars, PollerInv, PollerTypes, KnownLive, LiveFdsDiffer
    <2>2. OwnFd' /\ IndexTellsEpoll' /\ MapTellsIndex' /\ NoEpollFailure'
      BY <1>1
      DEF Create, pollerVars, PollerInv, OwnFd, IndexTellsEpoll, MapTellsIndex, NoEpollFailure
    <2> QED
      BY <2>1, <2>2 DEF PollerInv
  <1>2. ASSUME UNCHANGED <<channelVars, pollerVars>>
        PROVE  PollerInv'
    BY <1>2
    DEF channelVars, pollerVars, PollerInv, PollerTypes, KnownLive, LiveFdsDiffer, OwnFd,
        IndexTellsEpoll, MapTellsIndex, NoEpollFailure
  <1>3. CASE Poll
    BY <1>2, <1>3 DEF Poll
  <1>4. ASSUME NEW ch \in Channels, HandleEvent(ch)
        PROVE  PollerInv'
    BY <1>2, <1>4 DEF HandleEvent
  <1>5. CASE UNCHANGED vars
    BY <1>2, <1>5 DEF vars
  <1> QED
    BY <1>1, <1>3, <1>4, <1>5, UpdateStep, RemoveStep, CloseStep DEF Next

(* The invariant holds in every reachable state.                           *)
LEMMA PollerInvariant == Spec => []PollerInv
  BY PollerInvInit, PollerInvStep, PTL DEF Spec

-----------------------------------------------------------------------------
(* For any number of channels and descriptors, and any sequence of channel *)
(* operations, no epoll_ctl fails: EpollPoller::update never reaches its   *)
(* LOG_FATAL.                                                              *)
THEOREM EpollNeverFails == Spec => []NoEpollFailure
  <1>1. PollerInv => NoEpollFailure
    BY DEF PollerInv
  <1> QED
    BY <1>1, PollerInvariant, PTL

(* m_index always tells whether the kernel watches the channel, and for    *)
(* which events.                                                           *)
THEOREM IndexIsKernelState == Spec => []IndexTellsEpoll
  <1>1. PollerInv => IndexTellsEpoll
    BY DEF PollerInv
  <1> QED
    BY <1>1, PollerInvariant, PTL

(* m_channel_map holds exactly the channels given to the poller and not    *)
(* removed, however descriptor numbers are reused.                         *)
THEOREM MapIsIndex == Spec => []MapTellsIndex
  <1>1. PollerInv => MapTellsIndex
    BY DEF PollerInv
  <1> QED
    BY <1>1, PollerInvariant, PTL

-----------------------------------------------------------------------------
(* The event list.                                                         *)

\* What EpollPoller::poll itself keeps.
PollTypes == listSize \in Nat \ {0} /\ active \subseteq Channels

(* epoll_wait reports no more channels than there are descriptors: every   *)
(* entry of the epoll set belongs to a descriptor, and no two entries to   *)
(* the same.                                                               *)
LEMMA ReportedFew ==
  ASSUME NEW S \in SUBSET ReadyChannels
  PROVE  /\ IsFiniteSet(S)
         /\ Cardinality(S) \in Nat
         /\ Cardinality(S) <= Cardinality(Fds)
  <1> DEFINE T == {fd \in Fds : registered[fd] \in S}
             f == [fd \in T |-> registered[fd]]
  <1>1. IsFiniteSet(T) /\ Cardinality(T) <= Cardinality(Fds)
    BY EpollAssumption, FS_Subset
  <1>2. f \in Surjection(T, S)
    BY DEF Surjection, ReadyChannels
  <1>3. IsFiniteSet(S) /\ Cardinality(S) <= Cardinality(T)
    BY <1>1, <1>2, FS_Surjection
  <1>4. Cardinality(S) \in Nat /\ Cardinality(T) \in Nat /\ Cardinality(Fds) \in Nat
    BY <1>1, <1>3, EpollAssumption, FS_CardinalityType
  <1> QED
    BY <1>1, <1>3, <1>4

(* A poll grows the list only when it was filled, so that it had no more   *)
(* entries than there are descriptors.                                     *)
LEMMA ListStep ==
  PollerInv /\ PollTypes /\ ListBounded /\ [Next]_vars => PollTypes' /\ ListBounded'
  <1> SUFFICES ASSUME PollerInv, PollTypes, ListBounded, [Next]_vars
               PROVE  PollTypes' /\ ListBounded'
    OBVIOUS
  <1>1. CASE Poll
    <2>1. PICK S \in SUBSET ReadyChannels : active' = S /\ listSize' = Grown(Cardinality(S))
      BY <1>1 DEF Poll
    <2>2. Cardinality(S) \in Nat /\ Cardinality(S) <= Cardinality(Fds)
      BY ReportedFew
    <2>3. S \subseteq Channels
      BY DEF ReadyChannels, PollerInv, PollerTypes
    <2>4. Cardinality(Fds) \in Nat /\ InitSize \in Nat
      BY EpollAssumption, FS_CardinalityType
    <2>5. listSize' = listSize \/ (listSize' = 2 * listSize /\ listSize <= Cardinality(Fds))
      BY <2>1, <2>2 DEF Grown
    <2> QED
      BY <2>1, <2>3, <2>4, <2>5 DEF PollTypes, ListBounded
  <1>2. ASSUME listSize' = listSize, active' \subseteq active
        PROVE  PollTypes' /\ ListBounded'
    BY <1>2 DEF PollTypes, ListBounded
  <1>3. ASSUME NEW ch \in Channels, Create(ch) \/ Remove(ch) \/ Close(ch) \/ HandleEvent(ch)
        PROVE  PollTypes' /\ ListBounded'
    BY <1>2, <1>3 DEF Create, Remove, Close, HandleEvent
  <1>4. ASSUME NEW ch \in Channels, NEW ev \in SUBSET Interest, Update(ch, ev)
        PROVE  PollTypes' /\ ListBounded'
    BY <1>2, <1>4 DEF Update
  <1>5. CASE UNCHANGED vars
    BY <1>2, <1>5 DEF vars
  <1> QED
    BY <1>1, <1>3, <1>4, <1>5 DEF Next

(* Both hold in every reachable state.                                     *)
LEMMA ListInvariant == Spec => [](PollTypes /\ ListBounded)
  <1>1. Init => PollTypes /\ ListBounded
    BY EpollAssumption DEF Init, PollTypes, ListBounded
  <1> QED
    BY <1>1, PollerInvariant, ListStep, PTL DEF Spec

(* The channels' and the poller's variables keep their types.              *)
THEOREM PollerTypesCorrect == Spec => []TypeOK
  <1>1. PollerInv /\ PollTypes => TypeOK
    BY DEF PollerInv, PollerTypes, PollTypes, TypeOK
  <1> QED
    BY <1>1, PollerInvariant, ListInvariant, PTL

(* However many channels come and go, m_reventList never has more entries  *)
(* than twice the number of descriptors, or than KInitEventListSize.       *)
THEOREM EventListBounded == Spec => []ListBounded
  BY ListInvariant, PTL
=============================================================================
