----------------------------- MODULE LineReader -----------------------------
(***************************************************************************)
(* BridgeNode::recvLine and the splitting at the head of handleReply       *)
(* (ros2/sidewalk_cosim/src/bridge_node.cpp): from the bytes of a TCP      *)
(* stream to lines, and from a line to the fields of a reply.              *)
(*                                                                         *)
(* A byte is a carriage return, a line feed, a space or the content "c" of *)
(* a field.  ns-3 writes whole replies, but it may end within one, and     *)
(* recv returns whatever part of the stream has arrived.  In the           *)
(* co-simulation ns-3 never writes more than one reply ahead; here it may  *)
(* write Ahead of them, because nothing in the reader relies on that.      *)
(***************************************************************************)
EXTENDS Integers, Sequences, SequencesExt, FiniteSets

CONSTANTS
    NumFields, \* robots in the simulation: fields of a reply
    MaxField,  \* bound of the model: longest field
    MaxLines,  \* bound of the model: replies ns-3 writes
    Ahead,     \* how many replies ns-3 may be ahead of the reader
    MaxChunk   \* sizeof(buf)

ASSUME LineAssumption ==
    /\ {NumFields, MaxLines, Ahead, MaxChunk} \subseteq Nat \ {0}
    /\ MaxField \in Nat

VARIABLES
    net,     \* bytes written and not yet received
    closed,  \* ns-3 has closed its end
    cut,     \* the bytes of a reply ns-3 did not finish
    rx_buf_, \* bytes received and not yet returned
    pc,      \* the worker: "work", "recvLine", "lost" (recvLine returned false)
    replies, \* history: the fields of each reply written
    fields,  \* history: the fields of each line read
    sent,    \* history: the lines written
    got      \* history: the lines read

vars == <<net, closed, cut, rx_buf_, pc, replies, fields, sent, got>>

Content(n) == [k \in 1 .. n |-> "c"]

Replies == [1 .. NumFields -> {Content(n) : n \in 0 .. MaxField}]

CRLF == <<"CR", "LF">>

(* SendResponse: the values, separated by single spaces. *)
Join(reply) == Tail(FlattenSeq([k \in DOMAIN reply |-> <<"SP">> \o reply[k]]))

Init ==
    /\ net = <<>> /\ closed = FALSE /\ cut = <<>>
    /\ rx_buf_ = <<>>
    /\ pc = "work"
    /\ replies = <<>> /\ fields = <<>> /\ sent = <<>> /\ got = <<>>

-----------------------------------------------------------------------------
WriteReply ==
    /\ ~closed
    /\ Len(sent) < MaxLines
    /\ Len(sent) - Len(got) < Ahead
    /\ \E reply \in Replies :
          /\ net' = net \o Join(reply) \o CRLF
          /\ replies' = Append(replies, reply)
          /\ sent' = Append(sent, Join(reply))
    /\ UNCHANGED <<closed, cut, rx_buf_, pc, fields, got>>

(* ns-3 ends, perhaps with a part of a reply on the wire. *)
Close ==
    /\ ~closed
    /\ closed' = TRUE
    /\ \E reply \in Replies : \E n \in 0 .. Len(Join(reply)) + 1 :
          cut' = SubSeq(Join(reply) \o CRLF, 1, n)
    /\ net' = net \o cut'
    /\ UNCHANGED <<rx_buf_, pc, replies, fields, sent, got>>

-----------------------------------------------------------------------------
(* Where find finds a terminator: the positions of its first byte. *)
Found(buf) == {i \in 1 .. Len(buf) - 1 : SubSeq(buf, i, i + 1) = CRLF}

(* The worker has sent a step and waits for the reply. *)
CallRecvLine ==
    /\ pc = "work"
    /\ pc' = "recvLine"
    /\ UNCHANGED <<net, closed, cut, rx_buf_, replies, fields, sent, got>>

(* recv: some of what has arrived. *)
Receive ==
    /\ pc = "recvLine"
    /\ Found(rx_buf_) = {}
    /\ \E n \in 1 .. MaxChunk :
          /\ n <= Len(net)
          /\ rx_buf_' = rx_buf_ \o SubSeq(net, 1, n)
          /\ net' = SubSeq(net, n + 1, Len(net))
    /\ UNCHANGED <<closed, cut, pc, replies, fields, sent, got>>

(* recv returns 0: nothing more will come. *)
ReceiveNothing ==
    /\ pc = "recvLine"
    /\ Found(rx_buf_) = {}
    /\ net = <<>> /\ closed
    /\ pc' = "lost"
    /\ UNCHANGED <<net, closed, cut, rx_buf_, replies, fields, sent, got>>

(* Mutated forms: the buffer is dropped; only one byte of the terminator is. *)
AfterDropped(buf, end) == <<>>
AfterOneByte(buf, end) == SubSeq(buf, end + 1, Len(buf))

(* rx_buf_.erase(0, end + 2) *)
After(buf, end) == SubSeq(buf, end + 2, Len(buf))

(* The loop of handleReply stops at each space and at the end of the line. *)
Ends(line) == {i \in 1 .. Len(line) + 1 : i = Len(line) + 1 \/ line[i] = "SP"}

(* Where it stops the k-th time. *)
End(line, k) == CHOOSE e \in Ends(line) : Cardinality({i \in Ends(line) : i <= e}) = k

(* A field is what lies between two of them. *)
Split(line) ==
    [k \in 1 .. Cardinality(Ends(line)) |->
        SubSeq(line, IF k = 1 THEN 1 ELSE End(line, k - 1) + 1, End(line, k) - 1)]

(* Mutated form: without the empty ones, as operator>> would read them. *)
NonEmptyFields(line) == SelectSeq(Split(line), LAMBDA f : f # <<>>)

(* The fields of a reply. *)
Fields(line) == Split(line)

(* recvLine returns a line, and handleReply splits it. *)
ReturnLine ==
    /\ pc = "recvLine"
    /\ Found(rx_buf_) # {}
    /\ LET end == Min(Found(rx_buf_)) line == SubSeq(rx_buf_, 1, end - 1) IN
          /\ got' = Append(got, line)
          /\ fields' = Append(fields, Fields(line))
          /\ rx_buf_' = After(rx_buf_, end)
    /\ pc' = "work"
    /\ UNCHANGED <<net, closed, cut, replies, sent>>

Reader == CallRecvLine \/ Receive \/ ReceiveNothing \/ ReturnLine

Ended == pc = "lost" /\ UNCHANGED vars

(* At the bound ns-3 has written all it will, and has not closed. *)
Quiet == Len(got) = MaxLines /\ ~closed /\ UNCHANGED vars

Next == WriteReply \/ Close \/ Reader \/ Ended \/ Quiet

Spec == Init /\ [][Next]_vars

(* The worker is a thread the operating system keeps running. *)
FairSpec == Spec /\ WF_vars(Reader)

-----------------------------------------------------------------------------
(***************************************************************************)
(* No byte is lost, repeated or moved, however recv cuts the stream: what  *)
(* is in the buffer and on the wire are the lines not yet read, each with  *)
(* its terminator, and the reply that was cut off.                         *)
(***************************************************************************)
BytesConserved ==
    Len(got) <= Len(sent) /\
    rx_buf_ \o net =
        FlattenSeq([k \in 1 .. Len(sent) - Len(got) |-> sent[Len(got) + k] \o CRLF]) \o cut

(***************************************************************************)
(* The fields handleReply sees are those ns-3 sent, the empty ones         *)
(* included: field j of a reply is about robot j.                          *)
(***************************************************************************)
FieldsAgree == fields = SubSeq(replies, 1, Len(fields))

(* recvLine implements a queue of whole lines. *)
Fifo == INSTANCE LineFifo WITH Lines <- {Join(r) : r \in Replies}

QueueOfLines == Fifo!Spec

(***************************************************************************)
(* Before the worker gives ns-3 up for lost it has read every reply that   *)
(* ns-3 finished, and once ns-3 has closed it does give up.                *)
(***************************************************************************)
EverythingReadThenLost == closed ~> (pc = "lost" /\ got = sent)

=============================================================================
