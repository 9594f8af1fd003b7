---------------------------- MODULE RpcStream ----------------------------
(***************************************************************************)
(* One connection of the testlopri client to the testlopri server          *)
(* (heyp/app/testlopri): ClientConn of client.cc, OnRpcRead of server.cc   *)
(* and, between them, libuv's write queue and a TCP connection.            *)
(*                                                                         *)
(* A request is a header and a payload of zeros.  The 28 bytes of a header *)
(* are H = 2 units here, the payload length and the request's id; a        *)
(* payload unit is 0.  The client has ONE buffer for all its requests: a   *)
(* write that the socket has not taken yet reads the header that the       *)
(* latest request put there.                                               *)
(***************************************************************************)
EXTENDS Integers, Sequences, SequencesExt

CONSTANTS Workloads, \* sizes of the requests, in the order of their ids
          SockCap    \* how many units the socket's send buffer holds

H == 2

VARIABLES
  sizes,      \* the workload of this run
  issued,     \* requests issued so far (rpc_id_)
  buf,        \* the header in buf_
  queue,      \* libuv's write queue: [size, off], off units taken already
  completed,  \* writes whose OnWriteDone is still to run
  num_issued, \* num_issued_
  num_seen,   \* num_seen_
  read_buf_size,
  to_server, to_client,  \* the two directions of the connection
  stream,     \* client_stream_t: [header, bytes_left]
  acks,       \* the ids of the requests acknowledged, in order (history)
  up          \* the connection works

vars == <<sizes, issued, buf, queue, completed, num_issued, num_seen,
          read_buf_size, to_server, to_client, stream, acks, up>>

Init ==
  /\ sizes \in Workloads
  /\ issued = 0 /\ buf = <<0, 0>> /\ queue = <<>> /\ completed = 0
  /\ num_issued = 0 /\ num_seen = 0 /\ read_buf_size = 0
  /\ to_server = <<>> /\ to_client = 0
  /\ stream = [header |-> <<>>, bytes_left |-> 0]
  /\ acks = <<>> /\ up = TRUE

---------------------------------------------------------------------------
(* The client's writes *)

Lesser(a, b) == IF a < b THEN a ELSE b

\* What the socket takes of the first queued write, out of the buffer as it
\* is now.
Taken(b, q, wire) ==
  LET w == Head(q)
      n == Lesser(SockCap - Len(wire), w.size - w.off)
  IN  [i \in 1..n |-> IF w.off + i <= H THEN b[w.off + i] ELSE 0]

Flushed(b, q, wire) ==
  LET t == Taken(b, q, wire)
      w == [Head(q) EXCEPT !.off = @ + Len(t)]
  IN  [wire |-> wire \o t,
       queue |-> IF w.off = w.size THEN Tail(q) ELSE <<w>> \o Tail(q),
       done |-> IF w.off = w.size THEN 1 ELSE 0]

\* uv_write tries the socket at once when nothing is queued before it.
IssueRpc ==
  /\ up /\ issued < Len(sizes)
  /\ issued' = issued + 1
  /\ num_issued' = num_issued + 1
  /\ buf' = <<sizes[issued + 1] - H, issued + 1>>
  /\ LET q == Append(queue, [size |-> sizes[issued + 1], off |-> 0])
         f == Flushed(buf', q, to_server)
     IN  IF queue = <<>>
         THEN /\ queue' = f.queue /\ to_server' = f.wire
              /\ completed' = completed + f.done
         ELSE /\ queue' = q
              /\ UNCHANGED <<to_server, completed>>
  /\ UNCHANGED <<sizes, num_seen, read_buf_size, to_client, stream, acks, up>>

\* The socket has room again (libuv's loop).
Flush ==
  /\ up /\ queue # <<>> /\ Len(to_server) < SockCap
  /\ LET f == Flushed(buf, queue, to_server)
     IN  /\ queue' = f.queue /\ to_server' = f.wire
         /\ completed' = completed + f.done
  /\ UNCHANGED <<sizes, issued, buf, num_issued, num_seen, read_buf_size, to_client,
                 stream, acks, up>>

OnWriteDone ==
  /\ completed > 0
  /\ completed' = completed - 1
  /\ UNCHANGED <<sizes, issued, buf, queue, num_issued, num_seen, read_buf_size,
                 to_server, to_client, stream, acks, up>>

\* The connection breaks: every queued write fails and is no longer counted;
\* nothing more is read at either end.
Break ==
  /\ up
  /\ up' = FALSE
  /\ num_issued' = num_issued - Len(queue)
  /\ queue' = <<>>
  /\ UNCHANGED <<sizes, issued, buf, completed, num_seen, read_buf_size, to_server,
                 to_client, stream, acks>>

---------------------------------------------------------------------------
(* The server *)

Short(bytes_left, rest) == bytes_left > rest

\* The loop of OnRpcRead over the units it was given.
RECURSIVE Serve(_, _, _)
Serve(client, units, sent) ==
  IF units = <<>> THEN [client |-> client, sent |-> sent]
  ELSE IF Len(client.header) < H
  THEN LET h == Append(client.header, Head(units))
       IN  Serve([header |-> h,
                  bytes_left |-> IF Len(h) = H THEN h[1]
                                               ELSE client.bytes_left],
                 Tail(units), sent)
  ELSE IF Short(client.bytes_left, Len(units))
  THEN [client |-> [client EXCEPT !.bytes_left = @ - Len(units)],
        sent |-> sent]
  ELSE Serve([client EXCEPT !.header = <<>>],
             SubSeq(units, client.bytes_left + 1, Len(units)),
             Append(sent, client.header[2]))

\* A read hands over any prefix of what has arrived.
OnRpcRead ==
  /\ up
  /\ \E n \in 1..Len(to_server) :
       LET r == Serve(stream, SubSeq(to_server, 1, n), <<>>)
       IN  /\ stream' = r.client
           /\ acks' = acks \o r.sent
           /\ to_client' = to_client + H * Len(r.sent)
           /\ to_server' = SubSeq(to_server, n + 1, Len(to_server))
  /\ UNCHANGED <<sizes, issued, buf, queue, completed, num_issued, num_seen,
                 read_buf_size, up>>

---------------------------------------------------------------------------
\* OnReadAck: headers are cut out of whatever pieces arrive.
OnReadAck ==
  /\ up
  /\ \E n \in 1..to_client :
       /\ num_seen' = num_seen + (read_buf_size + n) \div H
       /\ read_buf_size' = (read_buf_size + n) % H
       /\ to_client' = to_client - n
  /\ UNCHANGED <<sizes, issued, buf, queue, completed, num_issued, to_server, stream,
                 acks, up>>

Next == IssueRpc \/ Flush \/ OnWriteDone \/ Break \/ OnRpcRead \/ OnReadAck

Spec == Init /\ [][Next]_vars

---------------------------------------------------------------------------
\* AssertValid (client.cc:171): the client never sees more answers than it
\* has requests out, though a failed write takes its request back.
AssertValid == num_seen <= num_issued

\* The shared buffer mixes up headers but, while all requests have one size,
\* not the framing: the k-th answer carries the header of the k-th request or
\* of one issued after it, never of one issued before and never payload.
AcksNeverOlder ==
  \A k \in DOMAIN acks : acks[k] >= k /\ acks[k] <= issued

\* When all that was sent has been read, every request has been answered,
\* except a last one without payload: its header ended the read, and OnRpcRead
\* looks at bytes_left only when there are more bytes.
AnswersLag ==
  up /\ queue = <<>> /\ to_server = <<>> /\ issued > 0 =>
    Len(acks) >= issued - (IF sizes[issued] = H THEN 1 ELSE 0)

\* Client and server agree on the requests on a connection.
StreamInv == AssertValid /\ AcksNeverOlder /\ AnswersLag
===========================================================================
