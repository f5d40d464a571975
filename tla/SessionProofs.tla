--------------------------- MODULE SessionProofs ---------------------------
(* Proofs about Session, for every value of its constants.                 *)
EXTENDS Session, TLAPS, SequenceTheorems

-----------------------------------------------------------------------------
(* What a receive leaves of a channel is a channel.                        *)
LEMMA DropType ==
  ASSUME NEW chan \in Seq(Opcodes), NEW k \in 1..Len(chan)
  PROVE  /\ Drop(chan, k) \in Seq(Opcodes)
         /\ chan /= <<>> => Head(chan) \in Opcodes
  <1>1. chan /= <<>> => Head(chan) \in Opcodes
    OBVIOUS
  <1>2. Drop(chan, k) \in Seq(Opcodes)
    <2>1. k + 1 \in 1..Len(chan) + 1 /\ Len(chan) \in Nat
      OBVIOUS
    <2> QED
      BY <2>1, SubSeqProperties DEF Drop
  <1> QED
    BY <1>1, <1>2

(* Every opcode a message is sent with is an opcode.                       *)
LEMMA OpcodesType ==
  /\ OP_TERM_SYN \in Opcodes /\ OP_TERM_ACK \in Opcodes
  /\ OP_RSLT_ACK \in Opcodes /\ OP_CONN_SYN \in Opcodes
  /\ OP_AUTH_SYN \in Opcodes /\ OP_STMT_SYN \in Opcodes
  /\ OP_RSLT_SYN \in Opcodes /\ OP_RSLT_FIN \in Opcodes
  /\ OP_CONN_ACK \in Opcodes /\ OP_AUTH_ACK \in Opcodes
  /\ OP_AUTH_ERR \in Opcodes /\ OP_STMT_ERR \in Opcodes
  BY DEF Opcodes, OP_NULL, OP_TERM_SYN, OP_TERM_ACK, OP_RSLT_ACK,
         OP_CONN_SYN, OP_AUTH_SYN, OP_STMT_SYN, OP_RSLT_SYN, OP_RSLT_FIN,
         OP_CONN_ACK, OP_AUTH_ACK, OP_AUTH_ERR, OP_STMT_ERR

(* So is a channel after a send.                                           *)
LEMMA SendType ==
  ASSUME NEW chan \in Seq(Opcodes), NEW op \in Opcodes
  PROVE  Append(chan, op) \in Seq(Opcodes)
  OBVIOUS

(* TypeOK in two parts: the Boolean variables, and the others.  The second *)
(* part is not inductive by itself: that the countdown of an input line    *)
(* stays in Nat needs a statement to be left when the next is composed.    *)
Flags == done \in BOOLEAN /\ go \in BOOLEAN /\ user \in BOOLEAN

TypeInv ==
  /\ c2s \in Seq(Opcodes) /\ s2c \in Seq(Opcodes)
  /\ cpc \in {"start", "conn", "auth", "prompt", "flush", "compose", "wait",
              "armed", "blocked", "join", "closed", "other"}
  /\ left \in 0..MaxBatch
  /\ apc \in {"off", "recv", "handle", "ack", "setdone", "lastdone", "over",
              "overdone", "setexit", "gone"}
  /\ cbuf \in Opcodes /\ copsent \in Opcodes
  /\ spc \in {"loop", "exec", "ack", "end"}
  /\ sbuf \in Opcodes /\ sopsent \in Opcodes /\ sloop \in {"cont", "term"}
  /\ chunks \in 0..MaxChunks
  /\ cpc = "compose" => left > 0

LEMMA TypeInvInit == Init => TypeInv
  BY SessionAssumption DEF Init, TypeInv, Opcodes, OP_NULL

LEMMA FlagsNext == Flags /\ [Next]_vars => Flags'
  <1> SUFFICES ASSUME Flags, [Next]_vars PROVE Flags'
    OBVIOUS
  <1> USE DEF Flags
  <1>1. done' \in BOOLEAN
    BY DEF Next, MainStep, Input, AgentStep, OtherStep, Server, vars, chans, cliV,
       mainV, srvV, OtherConnect, OtherSend, OtherRecv, OtherClose, CliConnect, CliFlush, CliCompose, CliWait, CliBlock, CliLeave,
       CliJoin, CliConnAck, CliAuthAck, CliRefused, CliNothing, CliExit,
       CliLine, CliRecv, CliNop, CliNoRow, CliChunk, CliAck, CliAnswer,
       CliTerm, CliTermSyn, CliConnErr, CliSetDone, CliOver, CliOverDone,
       CliSetExit, Notify, SrvNop, SrvConn, SrvAuthAck, SrvAuthErr,
       SrvAuthFail, SrvTerm, SrvStmt, SrvResultAck, SrvChunkAcked, SrvChunkTerm,
       SrvChunk, SrvNextOfScript, SrvFinish, SrvError, SrvSilent, SrvPeerGone
  <1>2. go' \in BOOLEAN
    BY DEF Next, MainStep, Input, AgentStep, OtherStep, Server, vars, chans, cliV,
       mainV, srvV, OtherConnect, OtherSend, OtherRecv, OtherClose, CliConnect, CliFlush, CliCompose, CliWait, CliBlock, CliLeave,
       CliJoin, CliConnAck, CliAuthAck, CliRefused, CliNothing, CliExit,
       CliLine, CliRecv, CliNop, CliNoRow, CliChunk, CliAck, CliAnswer,
       CliTerm, CliTermSyn, CliConnErr, CliSetDone, CliOver, CliOverDone,
       CliSetExit, Notify, SrvNop, SrvConn, SrvAuthAck, SrvAuthErr,
       SrvAuthFail, SrvTerm, SrvStmt, SrvResultAck, SrvChunkAcked, SrvChunkTerm,
       SrvChunk, SrvNextOfScript, SrvFinish, SrvError, SrvSilent, SrvPeerGone
  <1>3. user' \in BOOLEAN
    BY DEF Next, MainStep, Input, AgentStep, OtherStep, Server, vars, chans, cliV,
       mainV, srvV, OtherConnect, OtherSend, OtherRecv, OtherClose, CliConnect, CliFlush, CliCompose, CliWait, CliBlock, CliLeave,
       CliJoin, CliConnAck, CliAuthAck, CliRefused, CliNothing, CliExit,
       CliLine, CliRecv, CliNop, CliNoRow, CliChunk, CliAck, CliAnswer,
       CliTerm, CliTermSyn, CliConnErr, CliSetDone, CliOver, CliOverDone,
       CliSetExit, Notify, SrvNop, SrvConn, SrvAuthAck, SrvAuthErr,
       SrvAuthFail, SrvTerm, SrvStmt, SrvResultAck, SrvChunkAcked, SrvChunkTerm,
       SrvChunk, SrvNextOfScript, SrvFinish, SrvError, SrvSilent, SrvPeerGone
  <1> QED
    BY <1>1, <1>2, <1>3

LEMMA TypeInvMain == TypeInv /\ MainStep => TypeInv'
  <1> SUFFICES ASSUME TypeInv, MainStep PROVE TypeInv'
    OBVIOUS
  <1> USE SessionAssumption, OpcodesType DEF TypeInv
  <1>1. CASE CliConnect
    BY <1>1 DEF CliConnect, CliSend, srvV
  <1>2. CASE CliFlush
    BY <1>2 DEF CliFlush, CliSend, srvV
  <1>3. CASE CliCompose
    BY <1>3 DEF CliCompose, chans, srvV
  <1>4. CASE CliWait \/ CliBlock \/ CliLeave \/ CliJoin
    BY <1>4 DEF CliWait, CliBlock, CliLeave, CliJoin, chans, srvV
  <1>5. ASSUME NEW k \in 1..Len(s2c),
               CliConnAck(k) \/ CliAuthAck(k) \/ CliRefused(k)
        PROVE  TypeInv'
    <2>1. Drop(s2c, k) \in Seq(Opcodes) /\ (s2c /= <<>> => Head(s2c) \in Opcodes)
      BY DropType
    <2>2. CASE CliConnAck(k)
      BY <2>1, <2>2, SendType DEF CliConnAck, CliHandshake, CliSend, srvV
    <2>3. CASE CliAuthAck(k)
      BY <2>1, <2>3 DEF CliAuthAck, CliHandshake, srvV
    <2>4. CASE CliRefused(k)
      BY <2>1, <2>4 DEF CliRefused, srvV
    <2> QED
      BY <1>5, <2>2, <2>3, <2>4
  <1> QED
    BY <1>1, <1>2, <1>3, <1>4, <1>5 DEF MainStep

LEMMA TypeInvInput == TypeInv /\ Input => TypeInv'
  <1> SUFFICES ASSUME TypeInv, Input PROVE TypeInv'
    OBVIOUS
  <1> USE SessionAssumption, OpcodesType DEF TypeInv
  <1>1. CASE CliNothing \/ CliExit
    BY <1>1 DEF CliNothing, CliExit, chans, srvV
  <1>2. ASSUME NEW n \in 1..MaxBatch, CliLine(n) PROVE TypeInv'
    BY <1>2 DEF CliLine, chans, srvV
  <1> QED
    BY <1>1, <1>2 DEF Input

LEMMA TypeInvAgent == TypeInv /\ AgentStep => TypeInv'
  <1> SUFFICES ASSUME TypeInv, AgentStep PROVE TypeInv'
    OBVIOUS
  <1> USE SessionAssumption, OpcodesType DEF TypeInv
  <1>1. ASSUME NEW k \in 1..Len(s2c), CliRecv(k) \/ CliNop(k) \/ CliNoRow(k)
        PROVE  TypeInv'
    <2>1. Drop(s2c, k) \in Seq(Opcodes) /\ (s2c /= <<>> => Head(s2c) \in Opcodes)
      BY DropType
    <2> QED
      BY <1>1, <2>1 DEF CliRecv, CliNop, CliNoRow, mainV, srvV
  <1>2. CASE CliAck
    BY <1>2, SendType DEF CliAck, CliSend, mainV, srvV
  <1>5. CASE CliTermSyn
    BY <1>5, SendType DEF CliTermSyn, CliSend, mainV, srvV
  <1>3. CASE CliChunk \/ CliAnswer \/ CliTerm \/ CliConnErr
    BY <1>3 DEF CliChunk, CliAnswer, CliTerm, CliConnErr, chans, mainV, srvV
  <1>4. CASE CliSetDone \/ CliOver \/ CliOverDone \/ CliSetExit
    BY <1>4 DEF CliSetDone, CliOver, CliOverDone, CliSetExit, Notify, chans,
       mainV, srvV
  <1> QED
    BY <1>1, <1>2, <1>3, <1>4, <1>5 DEF AgentStep

LEMMA TypeInvOther == TypeInv /\ OtherStep => TypeInv'
  <1> SUFFICES ASSUME TypeInv, OtherStep PROVE TypeInv'
    OBVIOUS
  <1> USE SessionAssumption DEF TypeInv
  <1>1. CASE OtherConnect \/ OtherClose
    BY <1>1 DEF OtherConnect, OtherClose, chans, srvV
  <1>2. ASSUME NEW op \in CliRows, OtherSend(op) PROVE TypeInv'
    <2>1. op \in Opcodes
      BY DEF CliRows, Opcodes, OP_NULL, OP_STMT_SYN
    <2> QED
      BY <1>2, <2>1, SendType DEF OtherSend, cliV, mainV, srvV
  <1>3. ASSUME NEW k \in 1..Len(s2c), OtherRecv(k) PROVE TypeInv'
    BY <1>3, DropType DEF OtherRecv, cliV, mainV, srvV
  <1> QED
    BY <1>1, <1>2, <1>3 DEF OtherStep

LEMMA TypeInvServer == TypeInv /\ Server => TypeInv'
  <1> SUFFICES ASSUME TypeInv, Server PROVE TypeInv'
    OBVIOUS
  <1> USE SessionAssumption, OpcodesType DEF TypeInv
  <1>1. ASSUME NEW k \in 1..Len(c2s),
               \/ SrvNop(k) \/ SrvConn(k) \/ SrvAuthAck(k) \/ SrvAuthFail(k)
               \/ SrvTerm(k) \/ SrvStmt(k) \/ SrvChunkAcked(k) \/ SrvChunkTerm(k)
               \/ SrvResultAck(k)
        PROVE  TypeInv'
    <2>1. Drop(c2s, k) \in Seq(Opcodes) /\ (c2s /= <<>> => Head(c2s) \in Opcodes)
      BY DropType
    <2>2. CASE SrvNop(k) \/ SrvStmt(k) \/ SrvChunkAcked(k) \/ SrvResultAck(k)
      BY <2>1, <2>2 DEF SrvNop, SrvStmt, SrvChunkAcked, SrvResultAck, SrvTake,
         cliV, mainV
    <2>3. CASE SrvConn(k)
      BY <2>1, <2>3, SendType DEF SrvConn, SrvTake, SrvSend, cliV, mainV
    <2>4. CASE SrvAuthAck(k)
      BY <2>1, <2>4, SendType DEF SrvAuthAck, SrvTake, SrvSend, cliV, mainV
    <2>5. CASE SrvAuthFail(k)
      BY <2>1, <2>5, SendType DEF SrvAuthFail, SrvTake, SrvSend, cliV, mainV
    <2>6. CASE SrvTerm(k)
      BY <2>1, <2>6, SendType DEF SrvTerm, SrvTake, SrvSend, cliV, mainV
    <2>7. CASE SrvChunkTerm(k)
      BY <2>1, <2>7, SendType DEF SrvChunkTerm, SrvSend, cliV, mainV
    <2> QED
      BY <1>1, <2>2, <2>3, <2>4, <2>5, <2>6, <2>7
  <1>2. ASSUME NEW k \in 1..Len(c2s), NEW n \in 1..2, SrvAuthErr(k, n)
        PROVE  TypeInv'
    <2>1. Drop(c2s, k) \in Seq(Opcodes)
      BY DropType
    <2>2. [i \in 1..n |-> OP_AUTH_ERR] \in Seq(Opcodes)
      OBVIOUS
    <2>3. s2c \o [i \in 1..n |-> OP_AUTH_ERR] \in Seq(Opcodes)
      BY <2>2, ConcatProperties
    <2> QED
      BY <1>2, <2>1, <2>3 DEF SrvAuthErr, SrvTake, cliV, mainV
  <1>3. ASSUME NEW op \in Opcodes, SrvChunk(op) PROVE TypeInv'
    BY <1>3 DEF SrvChunk, SrvSend, cliV, mainV
  <1>4. CASE SrvNextOfScript \/ SrvSilent \/ SrvPeerGone
    BY <1>4 DEF SrvNextOfScript, SrvSilent, SrvPeerGone, chans, cliV, mainV
  <1>5. CASE SrvFinish
    BY <1>5, SendType DEF SrvFinish, SrvSend, cliV, mainV
  <1>6. CASE SrvError
    BY <1>6, SendType DEF SrvError, SrvSend, cliV, mainV
  <1> QED
    BY <1>1, <1>2, <1>3, <1>4, <1>5, <1>6 DEF Server

LEMMA TypeInvStutter == TypeInv /\ UNCHANGED vars => TypeInv'
  BY DEF TypeInv, vars, chans, cliV, mainV, srvV

(* The session's variables keep their types whatever the bounds are: in    *)
(* particular the countdown of an input line never passes zero and the     *)
(* opcode bytes of both buffers stay opcodes through every race.           *)
THEOREM TypeCorrect == Spec => []TypeOK
  <1>0. Init => Flags
    BY DEF Init, Flags
  <1>1. TypeInv /\ [Next]_vars => TypeInv'
    BY TypeInvMain, TypeInvInput, TypeInvAgent, TypeInvOther, TypeInvServer,
       TypeInvStutter DEF Next
  <1>2. Flags /\ TypeInv => TypeOK
    BY DEF Flags, TypeInv, TypeOK
  <1> QED
    BY <1>0, <1>1, <1>2, TypeInvInit, FlagsNext, PTL DEF Spec

-----------------------------------------------------------------------------
(* The opcodes whose row of the server's table admits OP_STMT_SYN, and     *)
(* OP_RSLT_SYN, are only ever sent by an authenticated session.            *)
AuthInv ==
  /\ spc \in {"exec", "ack"} => user
  /\ sopsent \in {OP_RSLT_SYN, OP_RSLT_FIN, OP_AUTH_ACK, OP_STMT_ERR} => user

LEMMA AuthInvNext == AuthInv /\ [Next]_vars => AuthInv'
  <1> SUFFICES ASSUME AuthInv, [Next]_vars PROVE AuthInv'
    OBVIOUS
  <1> USE DEF AuthInv
  <1>1. CASE MainStep \/ Input \/ AgentStep \/ OtherStep \/ UNCHANGED vars
    <2>1. UNCHANGED srvV
      BY <1>1 DEF MainStep, Input, AgentStep, OtherStep, vars, OtherConnect,
         OtherSend, OtherRecv, OtherClose, CliConnect, CliFlush,
         CliCompose, CliWait, CliBlock, CliLeave, CliJoin, CliConnAck,
         CliAuthAck, CliRefused, CliNothing, CliExit, CliLine, CliRecv, CliNop,
         CliNoRow, CliChunk, CliAck, CliAnswer, CliTerm, CliTermSyn,
         CliConnErr, CliSetDone, CliOver, CliOverDone, CliSetExit
    <2> QED
      BY <2>1 DEF srvV
  <1>2. ASSUME NEW k \in 1..Len(c2s),
               \/ SrvNop(k) \/ SrvChunkAcked(k) \/ SrvChunkTerm(k) \/ SrvTerm(k)
               \/ SrvConn(k) \/ SrvAuthFail(k) \/ SrvAuthAck(k)
               \/ SrvResultAck(k)
        PROVE  AuthInv'
    BY <1>2 DEF SrvNop, SrvResultAck, SrvChunkAcked, SrvChunkTerm, SrvTerm, SrvConn,
       SrvAuthFail, SrvAuthAck, SrvTake, SrvSend, OP_RSLT_SYN, OP_RSLT_FIN,
       OP_AUTH_ACK, OP_STMT_ERR, OP_TERM_ACK, OP_CONN_ACK, OP_AUTH_ERR
  <1>3. ASSUME NEW k \in 1..Len(c2s), NEW n \in 1..2, SrvAuthErr(k, n)
        PROVE  AuthInv'
    BY <1>3 DEF SrvAuthErr, OP_RSLT_SYN, OP_RSLT_FIN, OP_AUTH_ACK,
       OP_STMT_ERR, OP_AUTH_ERR
  <1>4. ASSUME NEW k \in 1..Len(c2s), SrvStmt(k) PROVE AuthInv'
    <2>1. OP_STMT_SYN \in SrvAccepts(sopsent)
      BY <1>4 DEF SrvStmt, SrvTake
    <2>2. sopsent \in {OP_RSLT_FIN, OP_AUTH_ACK, OP_STMT_ERR}
      BY <2>1 DEF SrvAccepts, OP_NULL, OP_TERM_SYN, OP_TERM_ACK, OP_RSLT_ACK,
         OP_CONN_SYN, OP_AUTH_SYN, OP_STMT_SYN, OP_RSLT_SYN, OP_RSLT_FIN,
         OP_CONN_ACK, OP_AUTH_ACK, OP_STMT_ERR
    <2> QED
      BY <1>4, <2>2 DEF SrvStmt
  <1>5. ASSUME NEW op \in Opcodes, SrvChunk(op) PROVE AuthInv'
    BY <1>5 DEF SrvChunk, SrvSend
  <1>6. CASE SrvNextOfScript \/ SrvFinish \/ SrvError \/ SrvSilent \/ SrvPeerGone
    BY <1>6 DEF SrvNextOfScript, SrvFinish, SrvError, SrvSilent, SrvPeerGone,
       SrvSend
  <1> QED
    BY <1>1, <1>2, <1>3, <1>4, <1>5, <1>6 DEF Next, Server

(* No statement is executed in a session that has not been authenticated:  *)
(* by the server's table alone, whatever program is at the other end and   *)
(* however its requests run together.                                      *)
THEOREM AuthCorrect == Spec => []AuthBeforeExec
  <1>1. Init => AuthInv
    BY DEF Init, AuthInv, OP_NULL, OP_RSLT_SYN, OP_RSLT_FIN, OP_AUTH_ACK,
       OP_STMT_ERR
  <1>2. AuthInv => AuthBeforeExec
    BY DEF AuthInv, AuthBeforeExec
  <1> QED
    BY <1>1, <1>2, AuthInvNext, PTL DEF Spec
-----------------------------------------------------------------------------
(* The dialogue of a client that sends one statement per line.  Quiet: the *)
(* server waits for a request (or has ended) and nothing is under way.     *)
Quiet == c2s = <<>> /\ s2c = <<>> /\ spc \in {"loop", "end"}

(* The main thread has sent its request and done is still false.           *)
Waiting == cpc \in {"wait", "armed", "blocked"} /\ ~done

(* Handshake: the agent thread does not exist yet.                         *)
Handshake ==
  /\ spc \in {"loop", "end"}
  /\ \/ cpc = "start" /\ c2s = <<>> /\ s2c = <<>> /\ spc = "loop"
     \/ /\ cpc \in {"conn", "auth"}
        /\ c2s = <<>>
        /\ \/ \E op \in Opcodes : s2c = <<op>>
           \/ s2c = <<>>
           \/ s2c = <<OP_AUTH_ERR, OP_AUTH_ERR>>
     \/ cpc = "conn" /\ c2s = <<OP_CONN_SYN>> /\ s2c = <<>>
     \/ cpc = "auth" /\ c2s = <<OP_AUTH_SYN>> /\ s2c = <<>>
     \/ cpc = "closed" /\ c2s = <<>> /\ Len(s2c) <= 1

(* Where the one request, or its answer, of a running session can be: with *)
(* nobody, on its way to the server, being executed, in a block of the     *)
(* result and its acknowledgement, or in the answer.                       *)
InResult == copsent \in {OP_STMT_SYN, OP_RSLT_ACK}
NotHandling == apc \in {"recv", "setexit", "gone"}

Requested ==
  /\ s2c = <<>> /\ spc \in {"loop", "end"} /\ NotHandling
  /\ \/ c2s = <<OP_STMT_SYN>> /\ copsent = OP_STMT_SYN
     \/ c2s = <<OP_TERM_SYN>>

Executing == c2s = <<>> /\ s2c = <<>> /\ spc = "exec" /\ InResult /\ NotHandling

Acknowledging ==
  /\ spc = "ack" /\ InResult
  /\ \/ s2c = <<OP_RSLT_SYN>> /\ c2s = <<>> /\ NotHandling
     \/ s2c = <<>> /\ c2s = <<OP_RSLT_ACK>> /\ NotHandling
     \/ s2c = <<>> /\ c2s = <<>> /\ apc \in {"handle", "ack"} /\ cbuf = OP_RSLT_ACK

Answering ==
  /\ c2s = <<>> /\ spc \in {"loop", "end"}
  /\ \/ \E op \in {OP_RSLT_FIN, OP_STMT_ERR, OP_TERM_ACK} : s2c = <<op>> /\ NotHandling
     \/ s2c = <<>> /\ apc = "handle" /\ cbuf \in {OP_RSLT_FIN, OP_STMT_ERR, OP_TERM_ACK}

Turn ==
  \/ Quiet /\ apc \notin {"handle", "ack"}
  \/ Waiting /\ (Requested \/ Executing \/ Acknowledging \/ Answering)

Dialogue ==
  /\ left = 0 /\ cpc \notin {"compose", "other"}
  /\ copsent \in CliRows
  /\ apc = "off" => Handshake
  /\ apc /= "off" =>
       /\ cpc \notin {"start", "conn", "auth"}
       /\ Turn
       /\ apc = "setdone" => Waiting
       /\ apc = "lastdone" => ~go
       /\ apc \in {"lastdone", "over", "overdone"} =>
            /\ cpc \in {"prompt", "wait", "armed", "blocked", "join"}
            /\ go => Waiting
       /\ cpc = "flush" =>
            /\ Quiet /\ ~done /\ cbuf \in {OP_STMT_SYN, OP_TERM_SYN}
            /\ apc \in {"recv", "setexit", "gone"}
  /\ spc = "ack" => sbuf = OP_RSLT_SYN
  /\ spc = "exec" /\ chunks > 0 => sbuf = OP_RSLT_SYN

(* Channels with at most one message.                                      *)
LEMMA OneMessage ==
  ASSUME NEW op
  PROVE  /\ Append(<<>>, op) = <<op>> /\ <<op>> /= <<>> /\ Head(<<op>>) = op
         /\ \A k \in 1..Len(<<op>>) : Drop(<<op>>, k) = <<>>
  <1>1. Append(<<>>, op) = <<op>> /\ <<op>> /= <<>> /\ Head(<<op>>) = op
    OBVIOUS
  <1>2. ASSUME NEW k \in 1..Len(<<op>>) PROVE Drop(<<op>>, k) = <<>>
    <2>1. k = 1 /\ Len(<<op>>) = 1
      OBVIOUS
    <2>2. SubSeq(<<op>>, 2, 1) = <<>>
      OBVIOUS
    <2> QED
      BY <2>1, <2>2 DEF Drop
  <1> QED
    BY <1>1, <1>2

LEMMA TwoMessages ==
  ASSUME NEW op \in Opcodes, NEW k \in 1..Len(<<op, op>>)
  PROVE  /\ Head(<<op, op>>) = op /\ <<op, op>> /= <<>>
         /\ Len(Drop(<<op, op>>, k)) <= 1
  <1>1. k \in {1, 2} /\ Len(<<op, op>>) = 2 /\ <<op, op>>[2] \in Opcodes
    OBVIOUS
  <1>2. \A i \in k + 1..2 : <<op, op>>[i] \in Opcodes
    BY <1>1
  <1>3. Len(SubSeq(<<op, op>>, k + 1, 2)) = IF k + 1 <= 2 THEN 2 - (k + 1) + 1 ELSE 0
    BY <1>1, <1>2, SubSeqProperties
  <1> QED
    BY <1>1, <1>3 DEF Drop

LEMMA DialogueMain ==
  ASSUME MaxBatch = 1, TypeInv, Dialogue, MainStep PROVE Dialogue'
  <1> USE DEF Dialogue, OP_NULL, OP_TERM_SYN, OP_TERM_ACK,
        OP_RSLT_ACK, OP_CONN_SYN, OP_AUTH_SYN, OP_STMT_SYN, OP_RSLT_SYN,
        OP_RSLT_FIN, OP_CONN_ACK, OP_AUTH_ACK, OP_AUTH_ERR, OP_STMT_ERR,
        OP_CONN_ERR, CliRows, srvV, chans
  <1>1. CASE CliConnect
    <2>1. apc = "off" /\ c2s = <<>> /\ s2c = <<>> /\ spc = "loop"
      BY <1>1 DEF CliConnect, Handshake
    <2>2. c2s' = <<OP_CONN_SYN>>
      BY <1>1, <2>1, OneMessage DEF CliConnect, CliSend
    <2>3. /\ cpc' = "conn" /\ copsent' = OP_CONN_SYN
          /\ UNCHANGED <<s2c, left, apc, spc, sbuf, chunks>>
      BY <1>1 DEF CliConnect, CliSend
    <2> QED
      BY <2>1, <2>2, <2>3 DEF Handshake
  <1>2. CASE CliFlush
    <2>1. apc \in {"recv", "setexit", "gone"} /\ Quiet
      BY <1>2 DEF CliFlush, Handshake
    <2>2. c2s' = <<cbuf>>
      BY <1>2, <2>1, OneMessage DEF CliFlush, CliSend, Quiet
    <2>3. ~done
      BY <1>2, <2>1 DEF CliFlush
    <2> QED
      BY <1>2, <2>1, <2>2, <2>3 DEF CliFlush, CliSend, Turn, Quiet, Waiting,
         Requested, NotHandling
  <1>3. CASE CliCompose
    BY <1>3 DEF CliCompose
  <1>4. CASE CliWait \/ CliBlock \/ CliLeave \/ CliJoin
    BY <1>4 DEF CliWait, CliBlock, CliLeave, CliJoin, Turn, Waiting, Quiet,
       Requested, Executing, Acknowledging, Answering, InResult, NotHandling,
       Handshake
  <1>5. ASSUME NEW k \in 1..Len(s2c),
               CliConnAck(k) \/ CliAuthAck(k) \/ CliRefused(k)
        PROVE  Dialogue'
    <2>1. /\ apc = "off" /\ c2s = <<>> /\ spc \in {"loop", "end"}
          /\ \/ \E op \in Opcodes : s2c = <<op>>
             \/ s2c = <<OP_AUTH_ERR, OP_AUTH_ERR>>
      BY <1>5 DEF CliConnAck, CliAuthAck, CliRefused, CliHandshake, Handshake
    <2>2. CASE \E op \in Opcodes : s2c = <<op>>
      <3>1. Drop(s2c, k) = <<>>
        BY <2>2, OneMessage
      <3>2. CASE CliConnAck(k)
        <4>1. c2s' = <<OP_AUTH_SYN>> /\ s2c' = <<>>
          BY <2>1, <3>1, <3>2, OneMessage DEF CliConnAck, CliHandshake, CliSend
        <4> QED
          BY <2>1, <3>2, <4>1 DEF CliConnAck, CliSend, Handshake
      <3>3. CASE CliAuthAck(k)
        BY <2>1, <3>1, <3>3 DEF CliAuthAck, CliHandshake, Turn, Quiet
      <3>4. CASE CliRefused(k)
        BY <2>1, <3>1, <3>4 DEF CliRefused, Handshake
      <3> QED
        BY <1>5, <3>2, <3>3, <3>4
    <2>3. CASE s2c = <<OP_AUTH_ERR, OP_AUTH_ERR>>
      <3>1. Head(s2c) = OP_AUTH_ERR /\ Len(Drop(s2c, k)) <= 1
        BY <2>3, TwoMessages DEF Opcodes
      <3>2. CliRefused(k)
        BY <1>5, <3>1 DEF CliConnAck, CliAuthAck, CliHandshake
      <3> QED
        BY <2>1, <3>1, <3>2 DEF CliRefused, Handshake
    <2> QED
      BY <2>1, <2>2, <2>3
  <1> QED
    BY <1>1, <1>2, <1>3, <1>4, <1>5 DEF MainStep

LEMMA DialogueInput ==
  ASSUME MaxBatch = 1, TypeInv, Dialogue, Input PROVE Dialogue'
  <1> USE DEF Dialogue, CliRows, srvV, chans
  <1>1. apc \in {"recv", "setexit", "gone"} /\ Quiet /\ cpc = "prompt"
    BY DEF Input, CliNothing, CliExit, CliLine, Handshake, Turn, Waiting, TypeInv
  <1>2. CASE CliNothing
    BY <1>1, <1>2 DEF CliNothing, Turn, Quiet
  <1>3. CASE CliExit
    BY <1>1, <1>3 DEF CliExit, Turn, Quiet
  <1>4. ASSUME NEW n \in 1..MaxBatch, CliLine(n) PROVE Dialogue'
    BY <1>1, <1>4 DEF CliLine, Turn, Quiet
  <1> QED
    BY <1>2, <1>3, <1>4 DEF Input

LEMMA DialogueAgent ==
  ASSUME MaxBatch = 1, TypeInv, Dialogue, AgentStep PROVE Dialogue'
  <1> USE DEF Dialogue, OP_NULL, OP_TERM_SYN, OP_TERM_ACK,
        OP_RSLT_ACK, OP_CONN_SYN, OP_AUTH_SYN, OP_STMT_SYN, OP_RSLT_SYN,
        OP_RSLT_FIN, OP_CONN_ACK, OP_AUTH_ACK, OP_AUTH_ERR, OP_STMT_ERR,
        OP_CONN_ERR, CliRows, srvV, chans, mainV
  <1>0. apc /= "off"
    BY DEF AgentStep, CliRecv, CliNop, CliNoRow, CliChunk, CliAck, CliAnswer,
       CliTerm, CliTermSyn, CliConnErr, CliSetDone, CliOver, CliOverDone,
       CliSetExit
  <1>1. ASSUME NEW k \in 1..Len(s2c), CliRecv(k) \/ CliNop(k) \/ CliNoRow(k)
        PROVE  Dialogue'
    <2>1. Waiting /\ c2s = <<>> /\ apc = "recv" /\ s2c /= <<>>
      BY <1>0, <1>1 DEF CliRecv, CliNop, CliNoRow, Turn, Quiet, Requested,
         Executing, Acknowledging, Answering
    <2>2. \/ s2c = <<OP_RSLT_SYN>> /\ spc = "ack" /\ InResult
          \/ /\ \E op \in {OP_RSLT_FIN, OP_STMT_ERR, OP_TERM_ACK} : s2c = <<op>>
             /\ spc \in {"loop", "end"}
      BY <1>0, <2>1 DEF Turn, Quiet, Requested, Executing, Acknowledging, Answering
    <2>3. Drop(s2c, k) = <<>>
      BY <2>2, OneMessage
    <2>4. CASE s2c = <<OP_RSLT_SYN>> /\ spc = "ack" /\ InResult
      <3>1. Head(s2c) = OP_RSLT_SYN
        BY <2>4, OneMessage
      <3>2. OP_RSLT_SYN \in CliAccepts(copsent)
        BY <2>4 DEF InResult, CliAccepts
      <3>3. CliRecv(k)
        BY <1>1, <3>1, <3>2 DEF CliNop, CliNoRow
      <3> QED
        BY <1>0, <2>1, <2>3, <2>4, <3>1, <3>3 DEF CliRecv, Turn, Waiting,
           Acknowledging, InResult
    <2>5. CASE /\ \E op \in {OP_RSLT_FIN, OP_STMT_ERR, OP_TERM_ACK} : s2c = <<op>>
               /\ spc \in {"loop", "end"}
      <3>1. Head(s2c) \in {OP_RSLT_FIN, OP_STMT_ERR, OP_TERM_ACK}
        BY <2>5, OneMessage
      <3>2. CASE CliRecv(k)
        BY <1>0, <2>1, <2>3, <2>5, <3>1, <3>2 DEF CliRecv, Turn, Waiting,
           Answering
      <3>3. CASE CliNop(k)
        BY <1>0, <2>1, <2>3, <2>5, <3>3 DEF CliNop, Turn, Waiting, Quiet
      <3>4. CASE CliNoRow(k)
        BY <3>4 DEF CliNoRow
      <3> QED
        BY <1>1, <3>2, <3>3, <3>4
    <2> QED
      BY <2>2, <2>4, <2>5
  <1>2. CASE CliChunk
    <2>1. Waiting /\ Acknowledging /\ c2s = <<>> /\ s2c = <<>>
      BY <1>0, <1>2 DEF CliChunk, Turn, Requested, Executing, Acknowledging,
         Answering, NotHandling
    <2> QED
      BY <1>0, <1>2, <2>1 DEF CliChunk, Turn, Waiting, Acknowledging, InResult,
         NotHandling
  <1>3. CASE CliAck
    <2>1. Waiting /\ c2s = <<>> /\ s2c = <<>> /\ spc = "ack" /\ cbuf = OP_RSLT_ACK
      BY <1>0, <1>3 DEF CliAck, Turn, Requested, Executing, Acknowledging,
         Answering, NotHandling
    <2>2. c2s' = <<OP_RSLT_ACK>>
      BY <1>3, <2>1, OneMessage DEF CliAck, CliSend
    <2> QED
      BY <1>0, <1>3, <2>1, <2>2 DEF CliAck, CliSend, Turn, Waiting,
         Acknowledging, InResult, NotHandling
  <1>4. CASE CliAnswer \/ CliTerm
    <2>1. Waiting /\ Quiet
      BY <1>0, <1>4 DEF CliAnswer, CliTerm, Turn, Quiet, Requested, Executing,
         Acknowledging, Answering, NotHandling
    <2> QED
      BY <1>0, <1>4, <2>1 DEF CliAnswer, CliTerm, Turn, Quiet, Waiting
  <1>5. CASE CliTermSyn \/ CliConnErr
    BY <1>0, <1>5 DEF CliTermSyn, CliConnErr, Turn, Requested, Executing,
       Acknowledging, Answering, NotHandling
  <1>6. CASE CliSetDone \/ CliOver \/ CliOverDone
    <2>1. Quiet
      BY <1>0, <1>6 DEF CliSetDone, CliOver, CliOverDone, Turn, Requested,
         Executing, Acknowledging, Answering, NotHandling
    <2>2. CASE CliSetDone
      BY <1>0, <2>1, <2>2 DEF CliSetDone, Notify, Turn, Quiet, Waiting
    <2>3. CASE CliOver
      BY <1>0, <2>1, <2>3 DEF CliOver, Turn, Quiet, Waiting
    <2>4. CASE CliOverDone
      BY <1>0, <2>1, <2>4 DEF CliOverDone, Notify, Turn, Quiet, Waiting
    <2> QED
      BY <1>6, <2>2, <2>3, <2>4
  <1>7. CASE CliSetExit
    BY <1>0, <1>7 DEF CliSetExit, Turn, Quiet, Waiting, Requested, Executing,
       Acknowledging, Answering, InResult, NotHandling
  <1> QED
    BY <1>1, <1>2, <1>3, <1>4, <1>5, <1>6, <1>7 DEF AgentStep

LEMMA DialogueServer ==
  ASSUME MaxBatch = 1, TypeInv, Dialogue, Server PROVE Dialogue'
  <1> USE DEF Dialogue, OP_NULL, OP_TERM_SYN, OP_TERM_ACK,
        OP_RSLT_ACK, OP_CONN_SYN, OP_AUTH_SYN, OP_STMT_SYN, OP_RSLT_SYN,
        OP_RSLT_FIN, OP_CONN_ACK, OP_AUTH_ACK, OP_AUTH_ERR, OP_STMT_ERR,
        OP_CONN_ERR, CliRows, cliV, mainV, chans
  <1>1. ASSUME NEW k \in 1..Len(c2s),
               \/ SrvNop(k) \/ SrvConn(k) \/ SrvAuthAck(k) \/ SrvAuthFail(k)
               \/ (\E n \in 1..2 : SrvAuthErr(k, n)) \/ SrvTerm(k) \/ SrvStmt(k)
               \/ SrvResultAck(k)
        PROVE  Dialogue'
    <2>1. spc = "loop" /\ c2s /= <<>> /\ c2s' = Drop(c2s, k)
      BY <1>1 DEF SrvNop, SrvResultAck, SrvConn, SrvAuthAck, SrvAuthFail, SrvAuthErr, SrvTerm,
         SrvStmt, SrvTake
    <2>2. CASE apc = "off"
      <3>1. /\ s2c = <<>>
            /\ \/ cpc = "conn" /\ c2s = <<OP_CONN_SYN>>
               \/ cpc = "auth" /\ c2s = <<OP_AUTH_SYN>>
        BY <2>1, <2>2 DEF Handshake
      <3>2. c2s' = <<>> /\ Head(c2s) \in {OP_CONN_SYN, OP_AUTH_SYN}
        BY <2>1, <3>1, OneMessage
      <3>3. CASE SrvNop(k)
        BY <2>2, <3>1, <3>2, <3>3 DEF SrvNop, Handshake
      <3>4. ASSUME NEW op \in Opcodes, SrvSend(op), UNCHANGED <<cliV, spc>>
            PROVE  Dialogue'
        <4>1. s2c' = <<op>>
          BY <3>1, <3>4, OneMessage DEF SrvSend
        <4> QED
          BY <2>1, <2>2, <3>1, <3>2, <3>4, <4>1 DEF Handshake
      <3>5. CASE SrvConn(k) \/ SrvAuthAck(k) \/ SrvAuthFail(k)
        BY <3>4, <3>5, OpcodesType DEF SrvConn, SrvAuthAck, SrvAuthFail
      <3>6. ASSUME NEW n \in 1..2, SrvAuthErr(k, n) PROVE Dialogue'
        <4>1. [i \in 1..n |-> OP_AUTH_ERR] = <<OP_AUTH_ERR>>
              \/ [i \in 1..n |-> OP_AUTH_ERR] = <<OP_AUTH_ERR, OP_AUTH_ERR>>
          OBVIOUS
        <4>2. s2c' = <<OP_AUTH_ERR>> \/ s2c' = <<OP_AUTH_ERR, OP_AUTH_ERR>>
          <5>1. <<>> \o <<OP_AUTH_ERR>> = <<OP_AUTH_ERR>>
                /\ <<>> \o <<OP_AUTH_ERR, OP_AUTH_ERR>> = <<OP_AUTH_ERR, OP_AUTH_ERR>>
            BY ConcatEmptySeq DEF Opcodes
          <5> QED
            BY <3>1, <3>6, <4>1, <5>1 DEF SrvAuthErr
        <4>3. spc' = "end" /\ UNCHANGED cliV
          BY <3>6 DEF SrvAuthErr
        <4>4. \/ \E op \in Opcodes : s2c' = <<op>>
              \/ s2c' = <<OP_AUTH_ERR, OP_AUTH_ERR>>
          BY <4>2, OpcodesType
        <4> QED
          BY <2>2, <3>1, <3>2, <4>3, <4>4 DEF Handshake
      <3>7. ~SrvTerm(k) /\ ~SrvStmt(k) /\ ~SrvResultAck(k)
        BY <3>2 DEF SrvResultAck, SrvTerm, SrvStmt, SrvTake
      <3> QED
        BY <1>1, <3>3, <3>5, <3>6, <3>7
    <2>3. CASE apc /= "off"
      <3>1. Waiting /\ Requested
        BY <2>1, <2>3 DEF Turn, Quiet, Executing, Acknowledging, Answering
      <3>2. /\ c2s' = <<>>
            /\ \/ Head(c2s) = OP_STMT_SYN /\ copsent = OP_STMT_SYN
               \/ Head(c2s) = OP_TERM_SYN
        BY <2>1, <3>1, OneMessage DEF Requested
      <3>3. CASE SrvNop(k)
        BY <2>3, <3>1, <3>2, <3>3 DEF SrvNop, Turn, Quiet, Requested, Waiting,
           NotHandling
      <3>4. CASE SrvTerm(k)
        <4>1. s2c' = <<OP_TERM_ACK>>
          BY <3>1, <3>4, OneMessage DEF SrvTerm, SrvSend, Requested
        <4> QED
          BY <2>3, <3>1, <3>2, <3>4, <4>1 DEF SrvTerm, SrvSend, Turn, Requested,
             Answering, Waiting, NotHandling
      <3>5. CASE SrvStmt(k)
        <4>1. Head(c2s) = OP_STMT_SYN /\ copsent = OP_STMT_SYN
          BY <3>2, <3>5 DEF SrvStmt, SrvTake
        <4> QED
          BY <2>3, <3>1, <3>2, <3>5, <4>1 DEF SrvStmt, Turn, Requested,
             Executing, Waiting, InResult, NotHandling
      <3>6. /\ ~SrvConn(k) /\ ~SrvAuthAck(k) /\ ~SrvAuthFail(k) /\ ~SrvResultAck(k)
            /\ \A n \in 1..2 : ~SrvAuthErr(k, n)
        BY <3>2 DEF SrvResultAck, SrvConn, SrvAuthAck, SrvAuthFail, SrvAuthErr, SrvTake
      <3> QED
        BY <1>1, <3>3, <3>4, <3>5, <3>6
    <2> QED
      BY <2>2, <2>3
  <1>2. ASSUME NEW k \in 1..Len(c2s), SrvChunkAcked(k) \/ SrvChunkTerm(k)
        PROVE  Dialogue'
    <2>1. spc = "ack" /\ c2s /= <<>>
      BY <1>2 DEF SrvChunkAcked, SrvChunkTerm
    <2>2. apc /= "off" /\ Waiting /\ Acknowledging
      BY <2>1 DEF Handshake, Turn, Quiet, Requested, Executing, Answering
    <2>3. c2s = <<OP_RSLT_ACK>> /\ s2c = <<>> /\ NotHandling
      BY <2>1, <2>2 DEF Acknowledging
    <2>4. Head(c2s) = OP_RSLT_ACK /\ Drop(c2s, k) = <<>>
      BY <2>3, OneMessage
    <2>5. SrvChunkAcked(k)
      BY <1>2, <2>4 DEF SrvChunkTerm
    <2> QED
      BY <2>2, <2>3, <2>4, <2>5 DEF SrvChunkAcked, Turn, Waiting, Acknowledging,
         Executing, InResult, NotHandling
  <1>3. ASSUME spc = "exec"
        PROVE  apc /= "off" /\ Waiting /\ Executing
    BY <1>3 DEF Handshake, Turn, Quiet, Requested, Acknowledging, Answering
  <1>4. ASSUME NEW op \in Opcodes, SrvChunk(op) PROVE Dialogue'
    <2>1. op = OP_RSLT_SYN /\ spc = "exec"
      BY <1>4 DEF SrvChunk
    <2>2. s2c' = <<OP_RSLT_SYN>>
      BY <1>3, <1>4, <2>1, OneMessage DEF SrvChunk, SrvSend, Executing
    <2> QED
      BY <1>3, <1>4, <2>1, <2>2 DEF SrvChunk, SrvSend, Executing, Turn, Waiting,
         Acknowledging, InResult, NotHandling
  <1>5. CASE SrvFinish \/ SrvError
    <2>1. s2c' = <<OP_RSLT_FIN>> \/ s2c' = <<OP_STMT_ERR>>
      BY <1>3, <1>5, OneMessage DEF SrvFinish, SrvError, SrvSend, Executing
    <2> QED
      BY <1>3, <1>5, <2>1 DEF SrvFinish, SrvError, SrvSend, Executing, Turn,
         Waiting, Answering, InResult, NotHandling
  <1>6. CASE SrvNextOfScript \/ SrvSilent
    BY <1>3, <1>6 DEF SrvNextOfScript, SrvSilent, Turn, Quiet, Waiting,
       Executing, InResult, NotHandling
  <1>7. CASE SrvPeerGone
    <2>1. spc \in {"loop", "end"}
      BY <1>7 DEF SrvPeerGone, Handshake, Turn, Quiet, Waiting
    <2>2. spc' = "end"
      BY <1>7, <2>1 DEF SrvPeerGone
    <2> QED
      BY <1>7, <2>1, <2>2 DEF SrvPeerGone, Handshake, Turn, Quiet, Waiting
  <1> QED
    BY <1>1, <1>2, <1>4, <1>5, <1>6, <1>7 DEF Server

(* Nobody but the client of the project connects.                          *)
LEMMA NoOther ==
  ASSUME ~AnyClient, Dialogue PROVE ~OtherStep
  BY DEF Dialogue, OtherStep, OtherConnect, OtherSend, OtherRecv, OtherClose

LEMMA DialogueStutter ==
  ASSUME Dialogue, UNCHANGED vars PROVE Dialogue'
  BY DEF vars, chans, cliV, mainV, srvV, Dialogue, Handshake, Turn, Quiet,
     Waiting, Requested, Executing, Acknowledging, Answering, InResult,
     NotHandling, CliRows

LEMMA DialogueFramed == TypeInv /\ Dialogue => Framed /\ ChunkOpcode /\ CliRowExists
  <1> SUFFICES ASSUME TypeInv, Dialogue PROVE Framed /\ ChunkOpcode /\ CliRowExists
    OBVIOUS
  <1>1. ASSUME NEW op PROVE Len(<<op>>) = 1
    OBVIOUS
  <1>2. Framed
    <2>1. \/ c2s = <<>> /\ s2c = <<>>
          \/ c2s = <<>> /\ s2c = <<OP_AUTH_ERR, OP_AUTH_ERR>>
          \/ c2s = <<>> /\ Len(s2c) <= 1
          \/ c2s = <<>> /\ \E op : s2c = <<op>>
          \/ s2c = <<>> /\ \E op : c2s = <<op>>
      <3>1. CASE apc = "off"
        BY <3>1 DEF Dialogue, Handshake
      <3>2. CASE apc /= "off"
        BY <3>2 DEF Dialogue, Turn, Quiet, Requested, Executing,
           Acknowledging, Answering
      <3> QED
        BY <3>1, <3>2
    <2>2. Len(c2s) \in Nat /\ Len(s2c) \in Nat /\ Len(<<>>) = 0
      BY DEF TypeInv
    <2>3. CASE c2s = <<>> /\ \E op : s2c = <<op>>
      <3>1. Len(s2c) = 1
        BY <1>1, <2>3
      <3> QED
        BY <2>2, <2>3, <3>1 DEF Framed
    <2>4. CASE s2c = <<>> /\ \E op : c2s = <<op>>
      <3>1. Len(c2s) = 1
        BY <1>1, <2>4
      <3> QED
        BY <2>2, <2>4, <3>1 DEF Framed
    <2>5. CASE c2s = <<>> /\ s2c = <<OP_AUTH_ERR, OP_AUTH_ERR>>
      BY <2>5 DEF Framed
    <2>6. CASE c2s = <<>> /\ (s2c = <<>> \/ Len(s2c) <= 1)
      BY <2>2, <2>6 DEF Framed
    <2> QED
      BY <2>1, <2>3, <2>4, <2>5, <2>6
  <1>3. ChunkOpcode /\ CliRowExists
    BY DEF Dialogue, ChunkOpcode, CliRowExists
  <1> QED
    BY <1>2, <1>3

(* The dialogue is kept by every step.                                     *)
LEMMA DialogueNext ==
  ASSUME MaxBatch = 1, ~AnyClient
  PROVE  /\ Init => TypeInv /\ Dialogue
         /\ TypeInv /\ Dialogue /\ [Next]_vars => (TypeInv /\ Dialogue)'
  <1>1. Init => Dialogue
    BY DEF Init, Dialogue, Handshake, CliRows, OP_NULL, OP_STMT_SYN
  <1>2. TypeInv /\ Dialogue /\ [Next]_vars => Dialogue'
    BY DialogueMain, DialogueInput, DialogueAgent, NoOther, DialogueServer,
       DialogueStutter DEF Next
  <1>3. TypeInv /\ [Next]_vars => TypeInv'
    BY TypeInvMain, TypeInvInput, TypeInvAgent, TypeInvOther, TypeInvServer,
       TypeInvStutter DEF Next
  <1> QED
    BY <1>1, <1>2, <1>3, TypeInvInit

(* With the project's own client and one statement per input line the two  *)
(* sides hold a strict dialogue:                                           *)
(* never two messages under way, so no receive runs two together, and the  *)
(* client's table has a row for every opcode it sent.                      *)
THEOREM DialogueCorrect ==
  ASSUME MaxBatch = 1, ~AnyClient
  PROVE  Spec => [](Framed /\ CliRowExists)
  BY DialogueNext, DialogueFramed, PTL DEF Spec

(* In such a dialogue every block of a result carries OP_RSLT_SYN,         *)
(* although flush() does not put it there: the acknowledgement that is     *)
(* received into the same buffer has the same number.                      *)
THEOREM ChunkCorrect ==
  ASSUME MaxBatch = 1, ~AnyClient
  PROVE  Spec => []ChunkOpcode
  BY DialogueNext, DialogueFramed, PTL DEF Spec

-----------------------------------------------------------------------------
(* Errors are shown: as long as no block of the result was sent, the last  *)
(* opcode of the client is that of the statement.                          *)
FirstAnswer ==
  apc /= "off" =>
    /\ spc = "ack" => chunks > 0
    /\ spc = "exec" /\ chunks = 0 => copsent = OP_STMT_SYN
    /\ s2c = <<OP_STMT_ERR>> /\ chunks = 0 => copsent = OP_STMT_SYN

LEMMA FirstAnswerClient ==
  ASSUME TypeInv, Dialogue, FirstAnswer, MainStep \/ Input \/ AgentStep
  PROVE  FirstAnswer'
  <1> USE DEF OP_NULL, OP_TERM_SYN, OP_TERM_ACK, OP_RSLT_ACK, OP_CONN_SYN,
        OP_AUTH_SYN, OP_STMT_SYN, OP_RSLT_SYN, OP_RSLT_FIN, OP_CONN_ACK,
        OP_AUTH_ACK, OP_AUTH_ERR, OP_STMT_ERR, OP_CONN_ERR, srvV, chans, mainV
  <1>1. ASSUME UNCHANGED <<s2c, spc, chunks, copsent, apc>> PROVE FirstAnswer'
    BY <1>1 DEF FirstAnswer
  <1>2. ASSUME s2c' = <<>>, spc' \in {"loop", "end"} PROVE FirstAnswer'
    BY <1>2 DEF FirstAnswer
  <1>3. CASE CliConnect \/ \E k \in 1..Len(s2c) : CliConnAck(k) \/ CliRefused(k)
    <2>1. apc = "off" /\ apc' = apc
      BY <1>3 DEF CliConnect, CliConnAck, CliRefused, CliHandshake, Dialogue
    <2> QED
      BY <2>1 DEF FirstAnswer
  <1>4. ASSUME NEW k \in 1..Len(s2c), CliAuthAck(k) PROVE FirstAnswer'
    <2>1. /\ cpc = "auth" /\ s2c /= <<>> /\ Head(s2c) = OP_AUTH_ACK
          /\ s2c' = Drop(s2c, k) /\ spc' = spc
      BY <1>4 DEF CliAuthAck, CliHandshake
    <2>2. apc = "off" /\ Handshake
      BY <2>1 DEF Dialogue
    <2>3. Head(<<OP_AUTH_ERR, OP_AUTH_ERR>>) = OP_AUTH_ERR
      OBVIOUS
    <2>4. PICK op : s2c = <<op>>
      BY <2>1, <2>2, <2>3 DEF Handshake
    <2>5. s2c' = <<>>
      BY <2>1, <2>4, OneMessage
    <2> QED
      BY <1>2, <2>1, <2>2, <2>5 DEF Handshake
  <1>5. CASE CliFlush
    <2>1. s2c' = s2c /\ spc' = spc /\ apc' = apc /\ cpc = "flush"
      BY <1>5 DEF CliFlush
    <2>2. CASE apc = "off"
      BY <2>1, <2>2 DEF FirstAnswer
    <2>3. CASE apc /= "off"
      BY <1>2, <2>1, <2>3 DEF Dialogue, Quiet
    <2> QED
      BY <2>2, <2>3
  <1>6. CASE CliCompose \/ CliWait \/ CliBlock \/ CliLeave \/ CliJoin \/ Input
    BY <1>1, <1>6 DEF CliCompose, CliWait, CliBlock, CliLeave, CliJoin, Input,
       CliNothing, CliExit, CliLine
  <1>7. ASSUME NEW k \in 1..Len(s2c), CliRecv(k) \/ CliNop(k) \/ CliNoRow(k)
        PROVE  FirstAnswer'
    <2>1. /\ apc = "recv" /\ s2c /= <<>> /\ s2c' = Drop(s2c, k)
          /\ UNCHANGED <<spc, chunks, copsent>>
      BY <1>7 DEF CliRecv, CliNop, CliNoRow
    <2>2. PICK op : s2c = <<op>>
      BY <2>1 DEF Dialogue, Turn, Quiet, Requested, Executing, Acknowledging, Answering
    <2>3. s2c' = <<>>
      BY <2>1, <2>2, OneMessage
    <2> QED
      BY <2>1, <2>3 DEF FirstAnswer
  <1>8. CASE CliAck
    <2>1. apc = "ack" /\ UNCHANGED <<s2c, spc, chunks>>
      BY <1>8 DEF CliAck
    <2>2. s2c = <<>> /\ spc = "ack"
      BY <2>1 DEF Dialogue, Turn, Quiet, Requested, Executing, Acknowledging,
         Answering, NotHandling
    <2> QED
      BY <2>1, <2>2 DEF FirstAnswer
  <1>9. ~ CliTermSyn
    BY DEF CliTermSyn, Dialogue, Turn, Quiet, Requested, Executing,
       Acknowledging, Answering, NotHandling
  <1>10. ASSUME CliChunk \/ CliAnswer \/ CliTerm \/ CliConnErr \/ CliSetDone
                \/ CliOver \/ CliOverDone \/ CliSetExit
         PROVE  FirstAnswer'
    <2>1. UNCHANGED <<s2c, spc, chunks, copsent>> /\ apc /= "off"
      BY <1>10 DEF CliChunk, CliAnswer, CliTerm, CliConnErr, CliSetDone, CliOver,
         CliOverDone, CliSetExit
    <2> QED
      BY <2>1 DEF FirstAnswer
  <1> QED
    BY <1>3, <1>4, <1>5, <1>6, <1>7, <1>8, <1>9, <1>10 DEF MainStep, AgentStep

LEMMA FirstAnswerServer ==
  ASSUME TypeInv, Dialogue, FirstAnswer, Server
  PROVE  FirstAnswer'
  <1> USE DEF OP_NULL, OP_TERM_SYN, OP_TERM_ACK, OP_RSLT_ACK, OP_CONN_SYN,
        OP_AUTH_SYN, OP_STMT_SYN, OP_RSLT_SYN, OP_RSLT_FIN, OP_CONN_ACK,
        OP_AUTH_ACK, OP_AUTH_ERR, OP_STMT_ERR, OP_CONN_ERR, cliV, chans, mainV
  <1>1. UNCHANGED <<apc, cpc, copsent, done>>
    BY DEF Server, SrvResultAck, SrvNop, SrvConn, SrvAuthAck, SrvAuthErr, SrvAuthFail, SrvTerm,
       SrvStmt, SrvChunkAcked, SrvChunkTerm, SrvChunk, SrvNextOfScript,
       SrvFinish, SrvError, SrvSilent, SrvPeerGone
  <1>2. CASE apc = "off"
    BY <1>1, <1>2 DEF FirstAnswer
  <1>3. CASE apc /= "off"
    <2>1. cpc \notin {"start", "conn", "auth"} /\ Turn
      BY <1>3 DEF Dialogue
    <2>2. \A op : <<op>> /= <<>> /\ Head(<<op>>) = op /\ Append(<<>>, op) = <<op>>
      BY OneMessage
    <2>3. \A x, y : <<x>> = <<y>> => x = y
      OBVIOUS
    <2>4. ASSUME NEW k \in 1..Len(c2s),
                 SrvNop(k) \/ SrvConn(k) \/ SrvAuthAck(k) \/ SrvAuthFail(k)
                 \/ (\E n \in 1..2 : SrvAuthErr(k, n)) \/ SrvTerm(k) \/ SrvStmt(k)
                 \/ SrvResultAck(k)
          PROVE  FirstAnswer'
      <3>1. spc = "loop" /\ c2s /= <<>>
        BY <2>4 DEF SrvResultAck, SrvNop, SrvConn, SrvAuthAck, SrvAuthFail, SrvAuthErr, SrvTerm,
           SrvStmt, SrvTake
      <3>2. /\ s2c = <<>>
            /\ \/ c2s = <<OP_STMT_SYN>> /\ copsent = OP_STMT_SYN
               \/ c2s = <<OP_TERM_SYN>>
        BY <2>1, <3>1 DEF Turn, Quiet, Requested, Executing, Acknowledging, Answering
      <3>3. Head(c2s) \in {OP_STMT_SYN, OP_TERM_SYN}
        BY <2>2, <3>2
      <3>4. CASE SrvNop(k)
        BY <1>1, <3>2, <3>4 DEF SrvNop, FirstAnswer
      <3>5. CASE SrvTerm(k)
        <4>1. s2c' = <<OP_TERM_ACK>> /\ spc' = "end"
          BY <2>2, <3>2, <3>5 DEF SrvTerm, SrvSend
        <4> QED
          BY <2>3, <4>1 DEF FirstAnswer
      <3>6. CASE SrvStmt(k)
        <4>1. s2c' = <<>> /\ spc' = "exec" /\ copsent = OP_STMT_SYN
          BY <2>2, <2>3, <3>2, <3>6 DEF SrvStmt, SrvTake
        <4> QED
          BY <1>1, <4>1 DEF FirstAnswer
      <3> QED
        BY <2>4, <3>3, <3>4, <3>5, <3>6 DEF SrvResultAck, SrvConn, SrvAuthAck, SrvAuthFail,
           SrvAuthErr, SrvTake
    <2>5. ASSUME NEW k \in 1..Len(c2s), SrvChunkAcked(k) \/ SrvChunkTerm(k)
          PROVE  FirstAnswer'
      <3>1. spc = "ack" /\ spc' = "exec" /\ chunks' = chunks /\ chunks > 0
        BY <1>3, <2>5 DEF SrvChunkAcked, SrvChunkTerm, FirstAnswer
      <3>2. chunks' /= 0
        BY <3>1
      <3> QED
        BY <3>1, <3>2 DEF FirstAnswer
    <2>6. ASSUME NEW op \in Opcodes, SrvChunk(op) PROVE FirstAnswer'
      <3>1. chunks' = chunks + 1 /\ chunks \in Nat
        BY <2>6, SessionAssumption DEF SrvChunk, TypeInv
      <3>2. chunks' > 0 /\ chunks' /= 0
        BY <3>1
      <3> QED
        BY <3>2 DEF FirstAnswer
    <2>7. CASE SrvError
      <3>1. spc = "exec" /\ chunks' = chunks /\ spc' \in {"loop", "end"}
        BY <2>7 DEF SrvError
      <3> QED
        BY <1>1, <1>3, <3>1 DEF FirstAnswer
    <2>8. CASE SrvFinish
      <3>1. spc = "exec" /\ spc' = "loop" /\ s2c' = Append(s2c, OP_RSLT_FIN)
        BY <2>8 DEF SrvFinish, SrvSend
      <3>2. s2c = <<>>
        BY <2>1, <3>1 DEF Turn, Quiet, Requested, Executing, Acknowledging, Answering
      <3>3. s2c' = <<OP_RSLT_FIN>>
        BY <2>2, <3>1, <3>2
      <3>4. s2c' /= <<OP_STMT_ERR>>
        BY <3>3
      <3> QED
        BY <3>1, <3>4 DEF FirstAnswer
    <2>9. CASE SrvNextOfScript \/ SrvSilent
      BY <1>1, <2>9 DEF SrvNextOfScript, SrvSilent, FirstAnswer, chans
    <2>10. CASE SrvPeerGone
      <3>1. cpc = "closed" /\ ~ Waiting
        BY <2>10 DEF SrvPeerGone, Waiting
      <3>2. Quiet
        BY <2>1, <3>1 DEF Turn
      <3> QED
        BY <1>1, <2>10, <3>2 DEF SrvPeerGone, Quiet, FirstAnswer, chans
    <2> QED
      BY <2>4, <2>5, <2>6, <2>7, <2>8, <2>9, <2>10 DEF Server
  <1> QED
    BY <1>2, <1>3

(* With one statement per input line, an OP_STMT_ERR that is the first     *)
(* answer to its statement is admitted by the client's table and so        *)
(* printed by rcvd(); only behind a block of a result can it be lost.      *)
THEOREM ErrorCorrect ==
  ASSUME MaxBatch = 1, ~AnyClient
  PROVE  Spec => []ErrorShown
  <1>1. Init => FirstAnswer
    BY DEF Init, FirstAnswer
  <1>2. TypeInv /\ Dialogue /\ FirstAnswer /\ [Next]_vars => FirstAnswer'
    <2>1. FirstAnswer /\ UNCHANGED vars => FirstAnswer'
      BY DEF FirstAnswer, vars, chans, cliV, srvV
    <2> QED
      BY <2>1, FirstAnswerClient, NoOther, FirstAnswerServer DEF Next
  <1>3. TypeInv /\ Dialogue /\ FirstAnswer => ErrorShown
    <2> SUFFICES ASSUME Dialogue, FirstAnswer, apc = "recv", s2c /= <<>>,
                        Head(s2c) = OP_STMT_ERR, chunks = 0
                 PROVE  OP_STMT_ERR \in CliAccepts(copsent)
      BY DEF ErrorShown
    <2>1. PICK op : s2c = <<op>>
      BY DEF Dialogue, Turn, Quiet, Requested, Executing, Acknowledging, Answering
    <2>2. s2c = <<OP_STMT_ERR>>
      BY <2>1, OneMessage
    <2>3. copsent = OP_STMT_SYN
      BY <2>2 DEF FirstAnswer
    <2> QED
      BY <2>3 DEF CliAccepts, OP_NULL, OP_TERM_SYN, OP_TERM_ACK, OP_RSLT_ACK,
         OP_CONN_SYN, OP_AUTH_SYN, OP_STMT_SYN, OP_RSLT_SYN, OP_RSLT_FIN, OP_STMT_ERR
  <1> QED
    BY <1>1, <1>2, <1>3, DialogueNext, PTL DEF Spec
=============================================================================
