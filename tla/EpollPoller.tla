---------------------------- MODULE EpollPoller ----------------------------
(***************************************************************************)
(* Channels and the poller they register with (src/mymuduo/Channel.h,      *)
(* EpollPoller.cpp).  Three records of the same fact have to agree: a      *)
(* channel's m_index, the poller's m_channel_map and the kernel's epoll    *)
(* set.  File descriptors are reused: a channel may be created for the     *)
(* number of one that was closed.                                          *)
(*                                                                         *)
(* A poller is used by its loop's thread only (Channel::update and remove  *)
(* are reached through handlers and functors), so operations do not        *)
(* interleave; but any sequence of them may happen.                        *)
(***************************************************************************)
EXTENDS Naturals, FiniteSets

CONSTANTS
  Channels,     \* Channel objects, each created at most once
  Fds,          \* file descriptor numbers
  NoChannel,    \* a null pointer
  InitSize      \* KInitEventListSize

ASSUME EpollAssumption ==
  /\ NoChannel \notin Channels
  /\ IsFiniteSet(Fds)
  /\ InitSize \in Nat \ {0}

VARIABLES
  life,         \* "unborn", "live" or "closed": the channel and its descriptor
  fdOf,         \* m_fd
  events,       \* m_events
  index,        \* m_index
  channelMap,   \* m_channel_map
  registered,   \* the kernel's epoll set: the channel (data.ptr) of a descriptor
  interest,     \* and the events asked for
  failed,       \* some epoll_ctl returned an error
  listSize,     \* m_reventList.size()
  active        \* m_activeChannels not handled yet

channelVars == <<life, fdOf, events, index>>
pollerVars == <<channelMap, registered, interest, failed>>
vars == <<channelVars, pollerVars, listSize, active>>

Interest == {"read", "write"}

TypeOK ==
  /\ life \in [Channels -> {"unborn", "live", "closed"}]
  /\ fdOf \in [Channels -> Fds]
  /\ events \in [Channels -> SUBSET Interest]
  /\ index \in [Channels -> {"kNew", "kAdded", "kDeleted"}]
  /\ channelMap \in [Fds -> Channels \cup {NoChannel}]
  /\ registered \in [Fds -> Channels \cup {NoChannel}]
  /\ interest \in [Fds -> SUBSET Interest]
  /\ failed \in BOOLEAN
  /\ listSize \in Nat \ {0}
  /\ active \subseteq Channels

Init ==
  /\ life = [ch \in Channels |-> "unborn"]
  /\ fdOf \in [Channels -> Fds]
  /\ events = [ch \in Channels |-> {}]
  /\ index = [ch \in Channels |-> "kNew"]
  /\ channelMap = [fd \in Fds |-> NoChannel]
  /\ registered = [fd \in Fds |-> NoChannel]
  /\ interest = [fd \in Fds |-> {}]
  /\ failed = FALSE
  /\ listSize = InitSize
  /\ active = {}

-----------------------------------------------------------------------------
(* EpollPoller::update, one operator per epoll_ctl operation.              *)

EpollCtlAdd(ch, ev) ==
  LET fd == fdOf[ch]
  IN  IF registered[fd] = NoChannel
        THEN /\ registered' = [registered EXCEPT ![fd] = ch]
             /\ interest' = [interest EXCEPT ![fd] = ev]
             /\ UNCHANGED failed
        ELSE failed' = TRUE /\ UNCHANGED <<registered, interest>>

EpollCtlMod(ch, ev) ==
  LET fd == fdOf[ch]
  IN  IF registered[fd] # NoChannel
        THEN /\ registered' = [registered EXCEPT ![fd] = ch]
             /\ interest' = [interest EXCEPT ![fd] = ev]
             /\ UNCHANGED failed
        ELSE failed' = TRUE /\ UNCHANGED <<registered, interest>>

EpollCtlDel(ch) ==
  LET fd == fdOf[ch]
  IN  IF registered[fd] # NoChannel
        THEN /\ registered' = [registered EXCEPT ![fd] = NoChannel]
             /\ interest' = [interest EXCEPT ![fd] = {}]
             /\ UNCHANGED failed
        ELSE failed' = TRUE /\ UNCHANGED <<registered, interest>>

-----------------------------------------------------------------------------
(* Operations of a channel.                                                *)

\* A socket, eventfd or timerfd is opened and a Channel is constructed for it.
\* m_fd was chosen in Init among all descriptors.
Create(ch) ==
  /\ life[ch] = "unborn"
  /\ \A d \in Channels : life[d] = "live" => fdOf[d] # fdOf[ch]
  /\ life' = [life EXCEPT ![ch] = "live"]
  /\ UNCHANGED <<fdOf, events, index, pollerVars, listSize, active>>

\* EpollPoller::updateChannel, for a channel whose m_events has become ev.
UpdateChannel(ch, ev) ==
  IF index[ch] # "kAdded"
    THEN /\ channelMap' = IF index[ch] = "kNew"
                            THEN [channelMap EXCEPT ![fdOf[ch]] = ch] ELSE channelMap
         /\ index' = [index EXCEPT ![ch] = "kAdded"]
         /\ EpollCtlAdd(ch, ev)
  ELSE IF ev = {}
    THEN /\ EpollCtlDel(ch)
         /\ index' = [index EXCEPT ![ch] = "kDeleted"]
         /\ UNCHANGED channelMap
    ELSE EpollCtlMod(ch, ev) /\ UNCHANGED <<index, channelMap>>

\* enableReading, disableReading, enableWriting, disableWriting, disableAll.
Update(ch, ev) ==
  /\ life[ch] = "live"
  /\ ev \in {events[ch] \cup {i} : i \in Interest}
              \cup {events[ch] \ {i} : i \in Interest} \cup {{}}
  /\ events' = [events EXCEPT ![ch] = ev]
  /\ UpdateChannel(ch, ev)
  /\ UNCHANGED <<life, fdOf, listSize, active>>

\* A removeChannel that only looks at whether the channel was ever added.
RemoveAlwaysDeletes(ch) ==
  /\ channelMap' = [channelMap EXCEPT ![fdOf[ch]] = NoChannel]
  /\ IF index[ch] # "kNew" THEN EpollCtlDel(ch)
                           ELSE UNCHANGED <<registered, interest, failed>>
  /\ index' = [index EXCEPT ![ch] = "kNew"]

\* A removeChannel that leaves the entry in m_channel_map.
RemoveKeepsEntry(ch) ==
  /\ IF index[ch] = "kAdded" THEN EpollCtlDel(ch)
                             ELSE UNCHANGED <<registered, interest, failed>>
  /\ index' = [index EXCEPT ![ch] = "kNew"]
  /\ UNCHANGED channelMap

\* A removeChannel that trusts disableAll to have been called before.
RemoveOnlyForgets(ch) ==
  /\ channelMap' = [channelMap EXCEPT ![fdOf[ch]] = NoChannel]
  /\ UNCHANGED <<registered, interest, failed>>
  /\ index' = [index EXCEPT ![ch] = "kNew"]

\* EpollPoller::removeChannel.
RemoveChannel(ch) ==
  /\ channelMap' = [channelMap EXCEPT ![fdOf[ch]] = NoChannel]
  /\ IF index[ch] = "kAdded" THEN EpollCtlDel(ch)
                             ELSE UNCHANGED <<registered, interest, failed>>
  /\ index' = [index EXCEPT ![ch] = "kNew"]

\* Channel::remove.
Remove(ch) ==
  /\ life[ch] = "live"
  /\ RemoveChannel(ch)
  /\ UNCHANGED <<life, fdOf, events, listSize, active>>

\* The owner destroys the channel and closes its descriptor, which takes it out of
\* the kernel's epoll set.  Neither Channel nor EpollPoller enforces that the channel
\* has been removed: that is the duty of the owners, and each of them does it
\* (connectDestroyed, ~Acceptor, ~TimerQueue, ~EventLoop).  Other channels may be
\* active meanwhile: the last shared_ptr of a connection may go in any thread.  That
\* no owner closes a channel whose own handler is still to be called is checked with
\* the owners, in module TcpServer.
Close(ch) ==
  /\ life[ch] = "live"
  /\ index[ch] = "kNew"
  /\ life' = [life EXCEPT ![ch] = "closed"]
  /\ registered' = [registered EXCEPT ![fdOf[ch]] = NoChannel]
  /\ interest' = [interest EXCEPT ![fdOf[ch]] = {}]
  /\ UNCHANGED <<fdOf, events, index, channelMap, failed, listSize, active>>

-----------------------------------------------------------------------------
(* EpollPoller::poll.                                                      *)

\* A list that is doubled after any event.
GrownEagerly(n) == IF n > 0 THEN 2 * listSize ELSE listSize

\* A list that is doubled when it was filled, and otherwise cut to what was reported.
CutToReported(n) == IF n = listSize THEN 2 * listSize ELSE n

\* The size of m_reventList after a poll that reported n events.
Grown(n) == IF n = listSize THEN 2 * listSize ELSE listSize

\* Channels that epoll_wait may report.
ReadyChannels == {registered[fd] : fd \in Fds} \ {NoChannel}

\* epoll_wait fills m_reventList with channels that are ready, fillActiveChannels
\* copies their pointers, and a list that was filled is doubled.  After a time-out,
\* or an error, nothing is reported.
Poll ==
  /\ active = {}
  /\ \E S \in SUBSET ReadyChannels :
       /\ Cardinality(S) <= listSize
       /\ active' = S
       /\ listSize' = Grown(Cardinality(S))
  /\ UNCHANGED <<channelVars, pollerVars>>

\* Channel::handleEvent: the handlers' effects on channels are the other actions.
HandleEvent(ch) ==
  /\ ch \in active
  /\ active' = active \ {ch}
  /\ UNCHANGED <<channelVars, pollerVars, listSize>>

Next ==
  \/ \E ch \in Channels :
       \/ Create(ch) \/ Remove(ch) \/ Close(ch) \/ HandleEvent(ch)
       \/ \E ev \in SUBSET Interest : Update(ch, ev)
  \/ Poll

Spec == Init /\ [][Next]_vars

-----------------------------------------------------------------------------
(* Properties.                                                             *)

(***************************************************************************)
(* A channel is in the kernel's epoll set, with the events it asks for,    *)
(* exactly when its m_index says kAdded: m_index is a cache of a fact the  *)
(* kernel keeps, and decides between ADD, MOD and DEL.                     *)
(***************************************************************************)
IndexTellsEpoll ==
  \A ch \in Channels :
    LET fd == fdOf[ch]
    IN  /\ index[ch] = "kAdded" <=> registered[fd] = ch
        /\ index[ch] = "kAdded" => interest[fd] = events[ch]

(***************************************************************************)
(* m_channel_map finds exactly the channels that were given to the poller  *)
(* and not removed, also when a descriptor number is used again.           *)
(***************************************************************************)
MapTellsIndex ==
  \A ch \in Channels : index[ch] # "kNew" <=> channelMap[fdOf[ch]] = ch

(***************************************************************************)
(* No epoll_ctl fails: the LOG_FATAL of EpollPoller::update, which ends    *)
(* the process, is never reached by any sequence of channel operations.    *)
(* Nor is its LOG_ERROR for a DEL that fails, which the program would      *)
(* survive: such a DEL is one for a descriptor the kernel does not watch.  *)
(***************************************************************************)
NoEpollFailure == ~ failed

(***************************************************************************)
(* The event list stops growing: however many channels come and go,        *)
(* doubling it when it was filled never makes it larger than twice the     *)
(* number of descriptors that can be open at a time.                       *)
(***************************************************************************)
ListBounded == listSize <= InitSize \/ listSize <= 2 * Cardinality(Fds)
=============================================================================
