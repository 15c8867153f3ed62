---------------------------- MODULE AtacMessages ----------------------------
(***************************************************************************)
(* The messages that the cores of an ATAC chip send each other: the        *)
(* application's calls (common/user), the filter and the message buffers   *)
(* of a tile (common/atac) and the count of what a receiver has not taken  *)
(* yet (common/tile/core/core.cc).  A packet is in the queue of each of    *)
(* its receivers when the call that sends it returns: Network has the way  *)
(* there, and a receiver that comes earlier finds what it would have found *)
(* before the call.  One thread runs on each tile.                         *)
(***************************************************************************)
EXTENDS Integers, Sequences, SequencesExt, FiniteSets, Bitwise

CONSTANTS
  Cores,          \* the ids of the tiles of the cores, from 0
  Rank,           \* the rank that the thread of each tile gives itself
  Owners,         \* what the memory of a new VirtualChannel may hold
  Names,          \* names of channels: their first character, and the rest
  Filters,        \* the filters an application sets: [op, mask, match]
  Signatures,
  Programs,       \* applications: the calls that each of their threads makes
  Limit,          \* LAMBDA_QUEUE_LENGTH - 4
  Wavelengths,    \* NUMBER_OF_WAVELENGTHS
  MaxChannels,    \* MAX_VIRTUAL_CHANNELS
  Delays,         \* the contention a packet may meet on its way to a receiver
  MaxSends        \* bound: the packets that the thread of a tile sends

VARIABLES
  program,   \* the application that runs
  known,     \* m_comm_to_tile_map: the tiles whose rank is in it
  nextVc,    \* Chip::next_vc_id
  channels,  \* Chip::active_virtual_channels
  vc,        \* the VirtualChannel of each thread
  filter,    \* the filter of each tile
  netQueue,  \* _netQueue of each tile
  buffer,    \* MessageBuffer::message_queues of each tile
  count,     \* s_rambda_buffer_count
  block,     \* s_block_send
  pc,        \* what each thread is in the middle of
  issued,    \* history: what the thread of each tile has sent
  left       \* history: the packets that have left each tile, in order

atacVars == <<program, known, nextVc, channels, vc, filter, netQueue, buffer,
              count, block, pc, issued, left>>

FirstVc == 10
ALL == -1        \* CAPI_ENDPOINT_ALL
None == [id |-> -1, owner |-> -1]
Idle == [at |-> "idle"]

Chip == /\ nextVc = FirstVc
        /\ channels = [c \in {name[1] : name \in Names} |-> 0]
FilteredIngestor ==
  filter = [t \in Cores |-> [op |-> "ALL", mask |-> 0, match |-> 0]]
MessageBuffer == buffer = [t \in Cores |-> <<>>]
CoreState == /\ count = [r \in Cores |-> [s \in Cores |-> 0]]
             /\ block = [t \in Cores |-> FALSE]
Init == /\ Chip /\ FilteredIngestor /\ MessageBuffer /\ CoreState
        /\ program \in Programs /\ known = {} /\ vc = [t \in Cores |-> None]
        /\ netQueue = [t \in Cores |-> <<>>] /\ pc = [t \in Cores |-> Idle]
        /\ issued = [t \in Cores |-> <<>>] /\ left = [t \in Cores |-> <<>>]

-----------------------------------------------------------------------------
(* Names of tiles and of channels *)

\* Config::getTileFromCommId, for a rank that is in the map.
getTileFromCommId(rank) == CHOOSE t \in known : Rank[t] = rank
Initialized(rank) == \E t \in known : Rank[t] = rank

CAPI_Initialize(t) ==
  /\ t \notin known
  /\ known' = known \cup {t}
  /\ UNCHANGED <<nextVc, channels, vc, filter, netQueue, buffer, count, block, pc,
                 issued, left>>

\* A VirtualChannel: nothing sets the owner.
Object(t, id) ==
  \E o \in Owners : vc' = [vc EXCEPT ![t] = [id |-> id, owner |-> o]]

\* VirtualChannel::create registers the name without a lock: the counter is
\* read and stored, and the map has the first character of the name only.
register_virtual_channel(t, name) ==
  /\ vc[t] = None /\ nextVc < MaxChannels
  /\ pc' = [pc EXCEPT ![t] = [at |-> "register", id |-> nextVc, name |-> name[1]]]
  /\ UNCHANGED <<known, nextVc, channels, vc, filter, netQueue, buffer, count,
                 block, issued, left>>
create(t) ==
  /\ pc[t].at = "register"
  /\ nextVc' = pc[t].id + 1
  /\ channels' = [channels EXCEPT ![pc[t].name] = pc[t].id]
  /\ Object(t, pc[t].id)
  /\ pc' = [pc EXCEPT ![t] = Idle]
  /\ UNCHANGED <<known, filter, netQueue, buffer, count, block, issued, left>>

find_vc_id(name) == IF channels[name[1]] = 0 THEN -1 ELSE channels[name[1]]
createFromRegistered(t, name) ==
  /\ vc[t] = None /\ find_vc_id(name) # -1
  /\ Object(t, find_vc_id(name))
  /\ UNCHANGED <<known, nextVc, channels, filter, netQueue, buffer, count, block,
                 pc, issued, left>>

\* The calls that name a tile by its rank take the id of the current tile for
\* a rank ("HACK"), so they reach the tile of the thread with that rank.
CAPI_set_filter(t, f) ==
  /\ Initialized(t)
  /\ filter' = [filter EXCEPT ![getTileFromCommId(t)] = f]
  /\ UNCHANGED <<known, nextVc, channels, vc, netQueue, buffer, count, block, pc,
                 issued, left>>

-----------------------------------------------------------------------------
(* Sending *)

\* A packet has the tile of the thread as its sender.  Its time is the clock of
\* the thread, which grows, and the contention at the ports on its way to each
\* receiver: a packet that is old to a port gets the delay of the analytical
\* model, and the next one may fit in at once.
netSend(t, to, chan, sig) ==
  LET n == Len(issued[t]) + 1
  IN  \E delay \in [to -> Delays] :
        /\ issued' = [issued EXCEPT ![t] = Append(@, to)]
        /\ netQueue' = [r \in Cores |->
             IF r \notin to THEN netQueue[r]
             ELSE Append(netQueue[r], [from |-> t, n |-> n, time |-> n + delay[r],
                                       chan |-> chan, sig |-> sig])]

\* Core::coreSendW takes no lock: it tests the flag of the sender ...
coreSendW(t, sender, to, chan, sig) ==
  \/ /\ to = ALL /\ ~block[sender]
     /\ pc' = [pc EXCEPT ![t] = [at |-> "load", sender |-> sender, core |-> 0,
                                 chan |-> chan, sig |-> sig]]
     /\ UNCHANGED <<issued, netQueue>>
  \/ /\ to = ALL /\ block[sender]
     /\ UNCHANGED <<pc, issued, netQueue>>
  \/ /\ to # ALL
     /\ netSend(t, {to}, chan, sig)
     /\ UNCHANGED pc

\* ... adds one to a count, in two accesses ...
LoadCount(t) ==
  /\ pc[t].at = "load"
  /\ pc' = [pc EXCEPT ![t] = [@ EXCEPT !.at = "store"] @@
                             [value |-> count[@.core][@.sender]]]
  /\ UNCHANGED <<known, nextVc, channels, vc, filter, netQueue, buffer, count, block,
                 issued, left>>

\* ... blocks the receiver, not the sender, at the limit, and goes on with the
\* next receiver ...
StopSend(t) ==
  /\ pc[t].at = "store"
  /\ LET i == pc[t].core
         n == pc[t].value + 1
     IN  /\ count' = [count EXCEPT ![i][pc[t].sender] = n]
         /\ block' = [block EXCEPT ![i] = @ \/ n >= Limit]
         /\ pc' = [pc EXCEPT ![t] =
              [at |-> IF i + 1 \in Cores THEN "load" ELSE "broadcast", core |-> i + 1,
               sender |-> @.sender, chan |-> @.chan, sig |-> @.sig]]
  /\ UNCHANGED <<known, nextVc, channels, vc, filter, netQueue, buffer, issued, left>>

\* ... and sends the packet.
netBroadcast(t) ==
  /\ pc[t].at = "broadcast"
  /\ netSend(t, Cores, pc[t].chan, pc[t].sig)
  /\ pc' = [pc EXCEPT ![t] = Idle]
  /\ UNCHANGED <<known, nextVc, channels, vc, filter, buffer, count, block, left>>

\* CAPI_message_send_w: nothing is sent if a rank is not known.
CAPI_message_send_w(t, sender, receiver, chan, sig) ==
  /\ Len(issued[t]) < MaxSends
  /\ LET to == IF receiver = ALL THEN ALL ELSE getTileFromCommId(receiver)
     IN  IF Initialized(sender) /\ (receiver = ALL \/ Initialized(receiver))
         THEN coreSendW(t, getTileFromCommId(sender), to, chan, sig)
         ELSE UNCHANGED <<pc, issued, netQueue>>
  /\ UNCHANGED <<known, nextVc, channels, vc, filter, buffer, count, block, left>>

send_message(t, sig) ==
  /\ vc[t] # None
  /\ CAPI_message_send_w(t, vc[t].owner, ALL, vc[t].id, sig)

-----------------------------------------------------------------------------
(* Receiving *)

From(q, s) == {i \in DOMAIN q : q[i].from = s}
Foremost(set) == CHOOSE i \in set : \A j \in set : i <= j
Leaves(x, p, how) == left' = [left EXCEPT ![x] = Append(@, <<p, how>>)]
Erase(x, i) == netQueue' = [netQueue EXCEPT ![x] = RemoveAt(@, i)]

\* CAPI_message_receive_w counts first, in two accesses too and before it
\* waits.  The packet is taken from the queue of the tile that the thread runs
\* on, the first one whatever its time.
CAPI_message_receive_w(t, rank) ==
  /\ Initialized(rank) /\ Initialized(Rank[t])
  /\ LET s == getTileFromCommId(rank)
         r == getTileFromCommId(Rank[t])
     IN  pc' = [pc EXCEPT ![t] = [at |-> "uncount", core |-> r, from |-> s,
                                  value |-> count[r][s]]]
  /\ UNCHANGED <<known, nextVc, channels, vc, filter, netQueue, buffer, count, block,
                 issued, left>>
StopSendRemove(t) ==
  /\ pc[t].at = "uncount"
  /\ LET n == pc[t].value - 1
     IN  /\ count' = [count EXCEPT ![pc[t].core][pc[t].from] = n]
         /\ block' = [block EXCEPT ![pc[t].from] = @ /\ n # Limit - 1]
  /\ pc' = [pc EXCEPT ![t] = [at |-> "recv", from |-> @.from]]
  /\ UNCHANGED <<known, nextVc, channels, vc, filter, netQueue, buffer, issued, left>>
coreRecvW(t) ==
  /\ pc[t].at = "recv" /\ From(netQueue[t], pc[t].from) # {}
  /\ LET i == Foremost(From(netQueue[t], pc[t].from))
     IN  Erase(t, i) /\ Leaves(t, netQueue[t][i], "direct")
  /\ pc' = [pc EXCEPT ![t] = Idle]
  /\ UNCHANGED <<known, nextVc, channels, vc, filter, buffer, count, block, issued>>

\* An integer is true unless it is zero.
passes_filter(f, sig) ==
  CASE f.op = "ALL"  -> TRUE
    [] f.op = "NONE" -> FALSE
    [] f.op = "AND"  -> ((sig & f.mask) & f.match) # 0
    [] f.op = "OR"   -> ((sig & f.mask) | f.match) # 0
    [] f.op = "XOR"  -> ((sig & f.mask) ^^ f.match) # 0

\* VirtualChannel::receive_message goes through the wavelengths, one for each
\* sender, and takes one packet of each that passes the filter.
receive_message(t) ==
  /\ vc[t] # None /\ Initialized(t)
  /\ pc' = [pc EXCEPT ![t] = [at |-> "filter", tile |-> getTileFromCommId(t),
                              from |-> 0]]
  /\ UNCHANGED <<known, nextVc, channels, vc, filter, netQueue, buffer, count,
                 block, issued, left>>

\* Network::netRecvNonBlock takes the first of the earliest packets of the
\* sender.
Latest(q, s) ==   \* faulty: the comparison is the wrong way round
  CHOOSE i \in From(q, s) : \A j \in From(q, s) : q[i].time >= q[j].time
Earliest(q, s) ==
  Foremost({i \in From(q, s) : \A j \in From(q, s) : q[i].time <= q[j].time})
enqueue_message(x, p) == buffer' = [buffer EXCEPT ![x] = Append(@, p)]
Scanning(t) == pc[t].at = "filter" /\ pc[t].from < Wavelengths /\ pc[t].from \in Cores
Candidates(t) == From(netQueue[pc[t].tile], pc[t].from)
Chosen(t) == Earliest(netQueue[pc[t].tile], pc[t].from)
Passes(t) == passes_filter(filter[pc[t].tile], netQueue[pc[t].tile][Chosen(t)].sig)

\* A packet that does not pass is dropped, and the next of the wavelength taken.
receive_filtered_from(t) ==
  LET x == pc[t].tile
  IN  /\ Scanning(t) /\ Candidates(t) # {} /\ ~Passes(t)
      /\ Erase(x, Chosen(t)) /\ Leaves(x, netQueue[x][Chosen(t)], "discarded")
      /\ UNCHANGED <<known, nextVc, channels, vc, filter, buffer, count, block, pc,
                     issued>>

filter_incoming_messages(t) ==
  LET x == pc[t].tile
  IN  /\ Scanning(t)
      /\ \/ Candidates(t) = {} /\ UNCHANGED <<netQueue, buffer>>
         \/ /\ Candidates(t) # {} /\ Passes(t)
            /\ Erase(x, Chosen(t))
            /\ enqueue_message(x, netQueue[x][Chosen(t)])
      /\ pc' = [pc EXCEPT ![t].from = @ + 1]
      /\ UNCHANGED <<known, nextVc, channels, vc, filter, count, block, issued, left>>

\* After the last wavelength the oldest packet of the channel is returned.
OfChannel(b, chan) == {i \in DOMAIN b : b[i].chan = chan}
dequeue_filtered_message(t) ==
  LET x == pc[t].tile
      mine == OfChannel(buffer[x], vc[t].id)
  IN  /\ pc[t].at = "filter" /\ ~Scanning(t)
      /\ IF mine = {} THEN UNCHANGED <<buffer, left>>
         ELSE /\ buffer' = [buffer EXCEPT ![x] = RemoveAt(@, Foremost(mine))]
              /\ Leaves(x, buffer[x][Foremost(mine)], "channel")
      /\ pc' = [pc EXCEPT ![t] = Idle]
      /\ UNCHANGED <<known, nextVc, channels, vc, filter, netQueue, count, block, issued>>

-----------------------------------------------------------------------------
(* Specification *)

\* A message buffer has no queue for the id of a channel that could not be
\* registered, so create is only called while there are ids left.
Call(t, c) ==
  \/ CAPI_Initialize(t)
  \/ c = "create" /\ \E name \in Names : register_virtual_channel(t, name)
  \/ c = "open" /\ \E name \in Names : createFromRegistered(t, name)
  \/ c = "filter" /\ \E f \in Filters : CAPI_set_filter(t, f)
  \/ c = "broadcast" /\ \E sig \in Signatures : send_message(t, sig)
  \/ c = "poll" /\ receive_message(t)
  \/ c = "send" /\ \E to \in {ALL} \cup {Rank[r] : r \in Cores} :
       \E sig \in Signatures : CAPI_message_send_w(t, Rank[t], to, FirstVc, sig)
  \/ c = "receive" /\ \E r \in Cores : CAPI_message_receive_w(t, Rank[r])

Next ==
  /\ UNCHANGED program
  /\ \E t \in Cores :
       \/ pc[t] = Idle /\ \E c \in program[t] : Call(t, c)
       \/ create(t)
       \/ LoadCount(t) \/ StopSend(t) \/ netBroadcast(t)
       \/ StopSendRemove(t) \/ coreRecvW(t)
       \/ receive_filtered_from(t) \/ filter_incoming_messages(t)
       \/ dequeue_filtered_message(t)

-----------------------------------------------------------------------------
(* Properties *)

\* The broadcasts of s that are, or were, at x, by the way they take.
Broadcasts(seq, s) == SelectSeq(seq, LAMBDA p : p.from = s /\ issued[s][p.n] = Cores)
Numbers(seq, s) == [i \in DOMAIN Broadcasts(seq, s) |-> Broadcasts(seq, s)[i].n]
Left(x, hows) ==
  LET those == SelectSeq(left[x], LAMBDA e : e[2] \in hows)
  IN  [i \in DOMAIN those |-> those[i][1]]
Increasing(ns) == \A i, j \in DOMAIN ns : i < j => ns[i] < ns[j]
On(chan, seq) == SelectSeq(seq, LAMBDA p : p.chan = chan)

\* A packet is behind one that was sent after it only if it also has the
\* later time.
InOrderOfTime(seq) ==
  \A i, j \in DOMAIN seq : i < j /\ seq[j].n < seq[i].n => seq[j].time > seq[i].time

\* A broadcast is never lost or doubled, whatever filters and receivers it
\* meets: at every tile it waits in the queue of the network or in the buffer of
\* its channel, or it has left in one way.  What a thread receives directly from
\* a sender comes in the order it was sent.  What a channel returns of a sender
\* does so unless contention gave a packet a later time than its successor
\* (netRecvNonBlock takes the earliest, network.cc:553): two packets whose times
\* are in order never change places, though both ways of receiving empty the
\* same queue, and one of them looks at times and the other does not.
MessagesKept ==
  \A x, s \in Cores :
    LET all == Numbers(Left(x, {"direct", "discarded", "channel"}) \o buffer[x]
                         \o netQueue[x], s)
        channel == Left(x, {"channel"}) \o buffer[x] \o netQueue[x]
    IN  /\ IsInjective(all)
        /\ Range(all) = {n \in DOMAIN issued[s] : issued[s][n] = Cores}
        /\ Increasing(Numbers(Left(x, {"direct"}) \o netQueue[x], s))
        /\ \A p \in Range(channel) :
             InOrderOfTime(Broadcasts(On(p.chan, channel), s))

\* A tile is only refused a broadcast ("Cannot broadcast due to contention",
\* core.cc:131) while a receiver has Limit of its broadcasts to take.
ContentionOnly ==
  \A t \in Cores : block[t] => \E i \in Cores : count[i][t] >= Limit
=============================================================================
