--------------------------- MODULE ConsumerGroup ---------------------------
(***************************************************************************)
(* One Kafka topic with a single partition, read by one consumer group, as *)
(* the services use it through kafka-go readers (FetchMessage followed by  *)
(* CommitMessages with the default, synchronous commit).  The code of the  *)
(* broker and of kafka-go is not in the repository: these operators are    *)
(* the contract the services rely on.                                      *)
(*                                                                         *)
(* A topic is a sequence.  A group is a record: `owner' is the member that *)
(* holds the partition, `position' counts the messages delivered since the *)
(* log began, and `committed' is the position a new generation starts at.  *)
(***************************************************************************)
EXTENDS Naturals, Sequences

NewGroup(member) == [owner |-> member, position |-> 0, committed |-> 0]

IsGroup(g, members) ==
    g \in [owner : members, position : Nat, committed : Nat]

\* FetchMessage returns a message to the member that owns the partition.
HasNext(g, topic) == g.position < Len(topic)

\* After delivery `position' is the (1-based) index of the delivered message.
Deliver(g) == [g EXCEPT !.position = @ + 1]

\* CommitMessages(msg) stores the offset after msg, whatever was committed
\* before: skipping over unhandled messages and moving backwards both work.
CommitOffset(g, offset) == [g EXCEPT !.committed = offset]

\* A new generation of the group: the partition goes to a member, which
\* starts again at the committed offset.
Reassign(g, member) == [g EXCEPT !.owner = member, !.position = g.committed]

=============================================================================
