------------------------------- MODULE ConnSvr ------------------------------
(***************************************************************************)
(* The connection gateway: EpollServer accepts clients, gives each one a   *)
(* connection record with an id, and passes messages between the clients   *)
(* and the backend servers it is connected to (its channels, numbered from *)
(* 0, 0 being the default one).                                            *)
(*                                                                         *)
(* The process has one thread: the handling of one socket event, or of one *)
(* message of a backend, is one step.  A backend is unreliable in what it  *)
(* sends: any message, about any connection id, at any time, which covers  *)
(* messages that were delayed until the id became stale.  Sockets are      *)
(* those of the clients; a descriptor is reused as soon as it is closed.   *)
(***************************************************************************)
EXTENDS Integers, Sequences, FiniteSets

CONSTANTS
  MaxConn,    \* maxconn of the configuration
  MaxInt,     \* the largest value of a C int
  FDs,        \* descriptors the kernel gives to accepted connections
  NChannels,  \* m_cptrvec.size()
  Ids         \* connection ids that occur in messages of the backends

ASSUME SizesAssumption ==
  /\ MaxConn \in Nat \ {0}
  /\ MaxInt \in Nat /\ MaxConn <= MaxInt
  /\ NChannels \in Nat \ {0}

ASSUME FDsAssumption == FDs \subseteq Nat \ {0}
ASSUME IdsAssumption == Ids \subseteq Int

VARIABLES
  vec,        \* m_vec: the connection records
  idxvec,     \* m_idxvec: the stack of free indexes
  chmap,      \* m_ChannelMap: m_id of the ServerChannel of a descriptor
  open,       \* the descriptors that are open connections
  gone,       \* of these, the ones whose client has hung up
  out,        \* what the last step sent
  retired,    \* history: ids closed since the id of their record last wrapped
  wrapped,    \* history: the id of some record has wrapped
  refused     \* history: a connection was refused for want of a record

vars == <<vec, idxvec, chmap, open, gone, out, retired, wrapped, refused>>

Idxs == 0 .. (MaxConn - 1)
NoFD == 0
NoChannel == -1

\* The tables as one value, so that handlers can call each other.
Tables == [vec |-> vec, idxvec |-> idxvec, chmap |-> chmap, open |-> open,
           out |-> <<>>, retired |-> retired, wrapped |-> wrapped,
           refused |-> refused]

ToBackend(ch, cmd, connid, val) ==
  [to |-> "backend", ch |-> ch, cmd |-> cmd, connid |-> connid, val |-> val]
ToClient(fd, connid) ==
  [to |-> "client", ch |-> fd, cmd |-> "msg_ntf", connid |-> connid, val |-> 0]

-----------------------------------------------------------------------------
(* ConnectionRecord *)

IsValid(rec) == rec.fd > 0

\* _UpdateConnid: the sum overflows into the negative ints.
NextConnid(i, connid) ==
  LET c == IF connid + MaxConn > MaxInt THEN connid + MaxConn - 2 * (MaxInt + 1)
           ELSE connid + MaxConn
  IN  IF c < i THEN i ELSE c

Detatch(i, rec) == [connid |-> NextConnid(i, rec.connid), fd |-> NoFD, chan |-> 0]

-----------------------------------------------------------------------------
(* The tables of EpollServer *)

IsChannelIdValid(id) == id >= 0 /\ id < NChannels

GetCurrConn(t) == MaxConn - Len(t.idxvec)

\* Mutation: the generation in the id is not compared.
HasRecordByIdx(t, connid) == connid >= 0 /\ IsValid(t.vec[connid % MaxConn])

\* GetConnectionRecord returns a record, that of index connid % MaxConn.
HasRecord(t, connid) ==
  /\ connid >= 0
  /\ IsValid(t.vec[connid % MaxConn])
  /\ t.vec[connid % MaxConn].connid = connid

Record(t, connid) == t.vec[connid % MaxConn]

\* Sends to a channel id that is not valid are dropped.
SendMsg(t, ch, cmd, connid, val) ==
  IF IsChannelIdValid(ch)
  THEN [t EXCEPT !.out = Append(@, ToBackend(ch, cmd, connid, val))]
  ELSE t

\* The id of record i goes out of use.
Retire(t, i) ==
  LET c == t.vec[i].connid
      w == NextConnid(i, c) <= c
  IN  [t EXCEPT !.retired = IF w THEN {r \in @ : r % MaxConn # i} ELSE @ \union {c},
                !.wrapped = @ \/ w]

\* Mutation: the index is returned for a record that is closed already.
CloseConnAgain(t, connid) ==
  IF connid < 0 THEN t
  ELSE LET i == connid % MaxConn
       IN  [Retire(t, i) EXCEPT !.idxvec = Append(@, i), !.vec[i] = Detatch(i, @)]

\* _CloseConn
CloseConn(t, connid) ==
  IF ~HasRecord(t, connid) THEN t
  ELSE LET i == connid % MaxConn
       IN  [Retire(t, i) EXCEPT !.idxvec = Append(@, i), !.vec[i] = Detatch(i, @)]

\* Mutation: the record is kept.
OnCloseChannelKeepsRecord(t, f) == [t EXCEPT !.chmap[f] = NoChannel]

\* EpollServer::OnCloseChannel, then that of TcpServer.  The notice goes to the
\* backend whose number is the connection id.
OnCloseChannel(t, f) ==
  LET id == t.chmap[f]
      t1 == IF HasRecord(t, id) THEN SendMsg(t, id, "stop", id, 0) ELSE t
  IN  [CloseConn(t1, id) EXCEPT !.chmap[f] = NoChannel]

\* Mutation: the descriptor is not closed.
HandleCloseLeaks(t, f) == OnCloseChannel(t, f)

\* ServerChannel::HandleClose, also Disconnect: it closes whatever connection
\* has the number of the channel's descriptor.
HandleClose(t, f) == OnCloseChannel([t EXCEPT !.open = @ \ {f}], f)

CloseConnid(t, connid) ==
  LET f == Record(t, connid).fd
  IN  IF HasRecord(t, connid) /\ t.chmap[f] # NoChannel
      THEN CloseConn(HandleClose(t, f), connid)
      ELSE CloseConn(t, connid)

\* _RecoredNewConn: the new id, or -1 when no record is free.
RecoredNewConn(t, f) ==
  LET i  == t.idxvec[Len(t.idxvec)]
      t1 == [t EXCEPT !.idxvec = SubSeq(@, 1, Len(@) - 1)]
  IN  IF t.idxvec = <<>> THEN [tab |-> t, connid |-> -1]
      ELSE IF IsValid(t.vec[i]) THEN [tab |-> CloseConn(t1, i), connid |-> -1]
      ELSE [tab |-> [t1 EXCEPT !.vec[i].fd = f], connid |-> t.vec[i].connid]

-----------------------------------------------------------------------------
(* Steps *)

\* A step ends with the tables t.
Becomes(t) ==
  /\ vec' = t.vec /\ idxvec' = t.idxvec /\ chmap' = t.chmap /\ open' = t.open
  /\ out' = t.out /\ retired' = t.retired
  /\ wrapped' = t.wrapped /\ refused' = t.refused

Init ==
  /\ vec = [i \in Idxs |-> [connid |-> i, fd |-> NoFD, chan |-> 0]]
  /\ idxvec = [k \in 1 .. MaxConn |-> k - 1]
  /\ chmap = [f \in FDs |-> NoChannel]
  /\ open = {}
  /\ gone = {}
  /\ out = <<>>
  /\ retired = {}
  /\ wrapped = FALSE
  /\ refused = FALSE

\* What m_cptrvec[0]->SendMsg does with the start request: it returns 0; it
\* returns an error; it returns an error of the reconnection it attempts, with
\* the message in the send buffer.
SendResults == {"ok", "failed", "queued"}

\* A client connects and the kernel gives it descriptor f: OnNewChannel.
OnNewChannel(f, res) ==
  LET t0 == [Tables EXCEPT !.open = @ \union {f}]
      t1 == IF chmap[f] # NoChannel THEN HandleClose(t0, f) ELSE t0
      r  == RecoredNewConn([t1 EXCEPT !.chmap[f] = 0], f)
      t2 == [r.tab EXCEPT !.chmap[f] = r.connid]
      t3 == IF res = "failed" THEN t2
            ELSE SendMsg(t2, 0, "start_req", r.connid, GetCurrConn(t2))
  IN  /\ f \notin open
      /\ IF r.connid < 0 THEN Becomes([r.tab EXCEPT !.open = @ \ {f}, !.refused = TRUE])
         ELSE IF res = "ok" THEN Becomes(t3)
         ELSE Becomes(CloseConn(t3, r.connid))
      /\ gone' = gone

\* A client hangs up.
HangUp(f) ==
  /\ f \in open \ gone
  /\ gone' = gone \union {f}
  /\ out' = <<>>
  /\ UNCHANGED <<vec, idxvec, chmap, open, retired, wrapped, refused>>

\* The server reads the end of the stream, or gets EPOLLHUP.
ClientClosed(f) ==
  /\ f \in gone
  /\ Becomes(HandleClose(Tables, f))
  /\ gone' = gone \ {f}

\* A complete message of a client is read; each one is passed on like this.
OnMsgRecv(f) ==
  LET id == chmap[f]
  IN  /\ f \in open /\ id # NoChannel
      /\ Becomes(IF HasRecord(Tables, id)
                 THEN SendMsg(Tables, Record(Tables, id).chan, "msg_ntf", id, 0)
                 ELSE Tables)
      /\ UNCHANGED gone

-----------------------------------------------------------------------------
(* Messages of the backends: ConnClient::OnRecvMsg and MsgHandleMgr *)

SetChannelid(t, c, ch) == [t EXCEPT !.vec[c % MaxConn].chan = ch]

StartRspHandle(c, accept, routechannel) ==
  /\ Becomes(IF ~HasRecord(Tables, c) THEN Tables
             ELSE IF accept # 0 \/ ~IsChannelIdValid(routechannel)
             THEN CloseConnid(Tables, c)
             ELSE SetChannelid(Tables, c, routechannel))
  /\ gone' = gone \intersect open'

StopHandle(c) ==
  /\ Becomes(IF ~HasRecord(Tables, c) THEN Tables
             ELSE CloseConnid(SendMsg(Tables, Record(Tables, c).chan, "stop", c, 0), c))
  /\ gone' = gone \intersect open'

\* The handler reads the channel from the message's startrsp, which a route
\* message does not have: it is the default value of the field, whatever channel
\* the route message names.
RouteHandle(c) ==
  LET startrsp_routechannel == 0
      t == SetChannelid(Tables, c, startrsp_routechannel)
  IN  /\ Becomes(IF ~HasRecord(Tables, c) THEN Tables
                 ELSE SendMsg(t, Record(t, c).chan, "route", c, Record(t, c).chan))
      /\ UNCHANGED gone

MsgNtfHandle(c, from) ==
  LET rec == Record(Tables, c)
  IN  /\ Becomes(IF ~HasRecord(Tables, c) THEN SendMsg(Tables, from, "stop", c, 0)
                 ELSE IF chmap[rec.fd] = NoChannel
                 THEN CloseConnid(SendMsg(Tables, rec.chan, "stop", c, 0), c)
                 ELSE [Tables EXCEPT !.out = <<ToClient(rec.fd, c)>>])
      /\ gone' = gone \intersect open'

\* Channel numbers in messages, one of them not valid.
ChannelArgs == 0 .. NChannels

ClientStep ==
  \E f \in FDs :
    \/ \E res \in SendResults : OnNewChannel(f, res)
    \/ HangUp(f)
    \/ ClientClosed(f)
    \/ OnMsgRecv(f)

BackendStep ==
  \E c \in Ids :
    \/ \E a \in {0, 1}, r \in ChannelArgs : StartRspHandle(c, a, r)
    \/ StopHandle(c)
    \/ RouteHandle(c)
    \/ \E ch \in 0 .. (NChannels - 1) : MsgNtfHandle(c, ch)

Next == ClientStep \/ BackendStep

Spec == Init /\ [][Next]_vars

-----------------------------------------------------------------------------
(* Properties *)

\* An index is on the free stack exactly once when its record is not in use and
\* not at all when it is: however a connection ends (the client hangs up, a
\* backend refuses or stops it, the start request fails, a channel is replaced)
\* and although CloseConnid calls _CloseConn twice, no index is lost or given
\* out twice.  The id of a record leads back to the record.
FreeIndexesOK ==
  /\ \A i \in Idxs : ~IsValid(vec[i]) <=> \E k \in 1 .. Len(idxvec) : idxvec[k] = i
  /\ \A k, l \in 1 .. Len(idxvec) : idxvec[k] = idxvec[l] => k = l
  /\ \A i \in Idxs : vec[i].connid % MaxConn = i

\* The channel that a record's descriptor leads to is the one with its id: what
\* a backend sends to a connection goes to the client the id was issued for.
\* (The NULL tests of GetSvrChannel's result never succeed.)
RecordHasChannel ==
  \A i \in Idxs : IsValid(vec[i]) => chmap[vec[i].fd] = vec[i].connid

\* The id of a closed connection leads to no record, until the ids of the
\* record have wrapped: a message about it that a backend sent before it knew
\* does not reach the client that has the record now.
RetiredIdsIgnored == \A c \in retired : ~HasRecord(Tables, c)

\* The record that a channel's id leads to is the channel's own: what a client
\* sends is passed on under its own id, and its channel's end closes no record
\* of another client.  True as long as ids have not wrapped and no connection
\* was refused for want of a record.
ChannelHasOwnRecord ==
  (~wrapped /\ ~refused) =>
    \A f \in FDs : (chmap[f] # NoChannel /\ HasRecord(Tables, chmap[f]))
                     => Record(Tables, chmap[f]).fd = f

\* A descriptor is open exactly while it has a channel: the server closes no
\* connection that it has just accepted, and keeps no channel whose descriptor
\* is closed.  With RecordHasChannel it follows that a record's descriptor is
\* open: when its client hangs up the end of the stream is reported (module
\* TcpServer), and the record freed.  True if no connection was refused for want of
\* a record.
ChannelsAreOpen == ~refused => open = {f \in FDs : chmap[f] # NoChannel}
=============================================================================
