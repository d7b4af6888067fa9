------------------------------ MODULE Channels ------------------------------
(***************************************************************************)
(* The interface "channel" (channel.c), and the channels as the other      *)
(* interfaces see them.  VDR's list is what ChannelList says, and stays;   *)
(* its numbers may have gaps.                                              *)
(***************************************************************************)
EXTENDS MethodPool, SequencesExt

CONSTANTS
  ChannelList   \* numbers of the channels, in their order; 0 is a group

Numbers == ToSet(ChannelList) \ {0}

ASSUME ChannelsAssumption == ChannelList \in Seq(Nat)

VARIABLES
  current       \* cDevice::CurrentChannel

\* cChannels::MaxNumber is 0 when there is no channel.
MaxNumber == IF Numbers = {} THEN 0 ELSE CHOOSE n \in Numbers : \A m \in Numbers : m <= n
Below(n) == {m \in Numbers : m < n}
Above(n) == {m \in Numbers : m > n}

\* GetFromTo has indexes; List a number, a channel (by id or name), ":groups",
\* nothing or what is no channel.
ChannelsCalls ==
  [method : {"Channels.Count", "Channels.Current"}, arg : {<<>>}] \union
  [method : {"Channels.GetFromTo"}, arg : (-1..1) \X {0, 2}] \union
  [method : {"Channels.List"},
   arg : {<<"number", n>> : n \in {0, 1, 2}} \union {<<"channel", n>> : n \in Numbers} \union
          {<<"">>, <<":groups">>, <<"unknown">>}]

\* CurrentChannel is 1 from the start, whether there is such a channel or not.
ChannelsInit == current = IF Numbers = {} THEN 1 ELSE MaxNumber

\* Each method holds the lock while it builds its answer.
Reads(w, m) == Runs(w, m) /\ Locked(w, "channels", "read") /\ UNCHANGED current

Count(w) == Reads(w, "Channels.Count") /\ Return(w, 0, <<Len(ChannelList)>>)

Current(w) == Reads(w, "Channels.Current") /\ Return(w, 0, <<current>>)

\* "No channels defined", where only groups may be.
Everything(w, found) == Return(w, IF Numbers = {} THEN 550 ELSE 250, IF Numbers = {} THEN <<>> ELSE found)

\* From an index that is none, nothing; a "to" below "from" gives one.
GetFromTo(w) ==
  /\ Reads(w, "Channels.GetFromTo")
  /\ LET from == call[w].arg[1]
         to == IF call[w].arg[2] < from THEN from ELSE call[w].arg[2]
         last == IF to < Len(ChannelList) THEN to + 1 ELSE Len(ChannelList)
     IN Return(w, 0, IF from \in 0..(Len(ChannelList) - 1) THEN SubSeq(ChannelList, from + 1, last) ELSE <<>>)

ChannelsList(w) ==
  /\ Reads(w, "Channels.List")
  /\ LET option == call[w].arg[1]
         found == IF option \in {"number", "channel"} THEN Numbers \intersect {call[w].arg[2]} ELSE {}
     IN \/ option \in {"number", "channel", "unknown"}
           /\ Return(w, IF found = {} THEN 501 ELSE 250, SetToSeq(found))
        \/ option = "" /\ Everything(w, SelectSeq(ChannelList, LAMBDA n : n # 0))
        \/ option = ":groups" /\ Everything(w, ChannelList)

ChannelsMethod(w) == Count(w) \/ Current(w) \/ GetFromTo(w) \/ ChannelsList(w)
=============================================================================
