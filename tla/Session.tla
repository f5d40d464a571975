------------------------------ MODULE Session ------------------------------
(***************************************************************************)
(* One client session: the command-line client (cli/main.cpp), the server  *)
(* thread that serves it (comm_agent and rcvd in srv/main.cpp), and the    *)
(* finite state machine both run on (class fsm of comm/comm.cpp).          *)
(*                                                                         *)
(* A message is its opcode.  TCP keeps no message boundaries and fsm::loop *)
(* dispatches on the first byte recv() returned, so one receive may take   *)
(* several messages off the channel and act on the first one only.         *)
(*                                                                         *)
(* Each side has ONE buffer for receiving and for sending (conn::m_buffer) *)
(* and flush() sends whatever opcode byte lies in it.  The server uses its *)
(* buffer from one thread; in the client the main thread (readline) and    *)
(* the agent thread (recv) share it, and their steps are split where the   *)
(* other thread can get in between.                                        *)
(***************************************************************************)
EXTENDS Integers, Sequences

CONSTANTS
  MaxBatch,   \* bound: statements on one input line of the client
  MaxChunks,  \* bound: result blocks (OP_RSLT_SYN) of one statement or script
  MaxQueue,   \* bound: messages a socket buffers before send() blocks
  Outcomes,   \* how a statement may end: "fin", "err", "silent"
  AnyClient   \* whether the peer may be a program other than cli/main.cpp

ASSUME SessionAssumption ==
  /\ MaxBatch \in Nat \ {0}
  /\ MaxChunks \in Nat
  /\ MaxQueue \in Nat
  /\ Outcomes \subseteq {"fin", "err", "silent"}
  /\ AnyClient \in BOOLEAN

VARIABLES
  c2s, s2c,   \* the two directions of the connection
  cpc,        \* where the client's main thread is
  left,       \* statements of the current input line still to send
  done, go,   \* globals of cli/main.h: done and all_systems_go
  apc,        \* where the client's agent thread is
  cbuf,       \* opcode byte in the client's buffer
  copsent,    \* the client's sndrcv::m_opsent
  spc,        \* where the session's server thread is
  sbuf,       \* opcode byte in the server's buffer
  sopsent,    \* the server's sndrcv::m_opsent
  sloop,      \* the server's fsm::m_loop, by who set it: "cont" or "term"
  chunks,     \* result blocks sent for the statement being executed
  user        \* the session has been authenticated (fsm::m_info is set)

chans  == <<c2s, s2c>>
mainV  == <<cpc, left>>
cliV   == <<mainV, done, go, apc, cbuf, copsent>>
srvV   == <<spc, sbuf, sopsent, sloop, chunks, user>>
vars   == <<chans, cliV, srvV>>

-----------------------------------------------------------------------------
(* The opcodes of comm.h.  The two directions share the numbers: 3 is      *)
(* OP_RSLT_ACK from the client and OP_RSLT_SYN from the server.            *)

OP_NULL     == 0
OP_TERM_SYN == 1
OP_TERM_ACK == 2
OP_RSLT_ACK == 3    \* client to server
OP_CONN_SYN == 4
OP_AUTH_SYN == 5
OP_STMT_SYN == 6
OP_RSLT_SYN == 3    \* server to client
OP_RSLT_FIN == 4
OP_CONN_ACK == 5
OP_CONN_ERR == 6
OP_AUTH_ACK == 7
OP_AUTH_ERR == 8
OP_STMT_ERR == 9

Opcodes == 0..9

(* Fault for ErrorShown: the row of OP_STMT_SYN lacks OP_STMT_ERR.         *)
CliAcceptsNoErr(o) ==
  CASE o = OP_NULL     -> {OP_TERM_SYN}
    [] o = OP_TERM_SYN -> {OP_TERM_ACK}
    [] o = OP_CONN_SYN -> {OP_TERM_SYN, OP_CONN_ACK}
    [] o = OP_AUTH_SYN -> {OP_TERM_SYN, OP_AUTH_ACK}
    [] o \in {OP_RSLT_ACK, OP_STMT_SYN}
                       -> {OP_TERM_SYN, OP_RSLT_SYN, OP_RSLT_FIN}
    [] OTHER           -> {}

(* CliAccepts(o): what the client passes on to rcvd() when o is the last   *)
(* opcode it sent; anything else goes to nop(), which ends the loop.       *)
CliAccepts(o) ==
  CASE o = OP_NULL     -> {OP_TERM_SYN}
    [] o = OP_TERM_SYN -> {OP_TERM_ACK}
    [] o = OP_TERM_ACK -> {}
    [] o = OP_RSLT_ACK -> {OP_TERM_SYN, OP_RSLT_SYN, OP_RSLT_FIN}
    [] o = OP_CONN_SYN -> {OP_TERM_SYN, OP_CONN_ACK}
    [] o = OP_AUTH_SYN -> {OP_TERM_SYN, OP_AUTH_ACK}
    [] o = OP_STMT_SYN -> {OP_TERM_SYN, OP_RSLT_SYN, OP_RSLT_FIN, OP_STMT_ERR}
    [] OTHER           -> {}

(* The table of the client has rows for the opcodes a client sends.        *)
CliRows == OP_NULL..OP_STMT_SYN

(* Fault for AuthBeforeExec: the row of OP_CONN_ACK admits OP_STMT_SYN too. *)
SrvAcceptsEarly(o) ==
  CASE o = OP_NULL     -> {OP_CONN_SYN}
    [] o = OP_TERM_SYN -> {OP_TERM_ACK}
    [] o = OP_TERM_ACK -> {}
    [] o = OP_RSLT_SYN -> {OP_TERM_SYN, OP_RSLT_ACK}
    [] o = OP_CONN_ACK -> {OP_TERM_SYN, OP_AUTH_SYN, OP_STMT_SYN}
    [] o \in {OP_RSLT_FIN, OP_AUTH_ACK, OP_STMT_ERR}
                       -> {OP_TERM_SYN, OP_STMT_SYN}
    [] OTHER           -> {OP_TERM_SYN}

(* SrvAccepts(o): the same for the server's table.                         *)
SrvAccepts(o) ==
  CASE o = OP_NULL     -> {OP_CONN_SYN}
    [] o = OP_TERM_SYN -> {OP_TERM_ACK}
    [] o = OP_TERM_ACK -> {}
    [] o = OP_RSLT_SYN -> {OP_TERM_SYN, OP_RSLT_ACK}
    [] o = OP_CONN_ACK -> {OP_TERM_SYN, OP_AUTH_SYN}
    [] o \in {OP_RSLT_FIN, OP_AUTH_ACK, OP_STMT_ERR}
                       -> {OP_TERM_SYN, OP_STMT_SYN}
    [] OTHER           -> {OP_TERM_SYN}

(* recv() into the buffer takes k >= 1 messages off the channel; the       *)
(* opcode that is dispatched on is that of the first one.                  *)
Drop(chan, k) == SubSeq(chan, k + 1, Len(chan))

Room(chan) == Len(chan) < MaxQueue

Init ==
  /\ c2s = <<>> /\ s2c = <<>>
  /\ cpc = "start" /\ left = 0 /\ done = TRUE /\ go = TRUE
  /\ apc = "off" /\ cbuf = OP_NULL /\ copsent = OP_NULL
  /\ spc = "loop" /\ sbuf = OP_NULL /\ sopsent = OP_NULL /\ sloop = "cont"
  /\ chunks = 0 /\ user = FALSE

-----------------------------------------------------------------------------
(* The client's main thread.                                               *)

(* send() of the opcode op: the buffer holds it, m_opsent remembers it.    *)
CliSend(op) ==
  /\ Room(c2s)
  /\ c2s' = Append(c2s, op)
  /\ cbuf' = op
  /\ copsent' = op

(* main(): reset(OP_CONN_SYN); flush(); loop().                            *)
CliConnect ==
  /\ cpc = "start"
  /\ CliSend(OP_CONN_SYN)
  /\ cpc' = "conn"
  /\ UNCHANGED <<s2c, left, done, go, apc, srvV>>

(* Before the agent thread exists the main thread runs the loop itself:    *)
(* the server's answer is taken and, when the table and rcvd() accept it,  *)
(* the next request of the handshake is sent; otherwise main() returns.    *)
CliHandshake(k, here, ack) ==
  /\ cpc = here /\ s2c /= <<>>
  /\ Head(s2c) = ack /\ ack \in CliAccepts(copsent)
  /\ s2c' = Drop(s2c, k)

CliConnAck(k) ==
  /\ CliHandshake(k, "conn", OP_CONN_ACK)
  /\ CliSend(OP_AUTH_SYN)
  /\ cpc' = "auth"
  /\ UNCHANGED <<left, done, go, apc, srvV>>

CliAuthAck(k) ==
  /\ CliHandshake(k, "auth", OP_AUTH_ACK)
  /\ cbuf' = OP_AUTH_ACK
  /\ cpc' = "prompt"
  /\ apc' = "recv"                                   \* std::thread cli_agent
  /\ UNCHANGED <<c2s, left, done, go, copsent, srvV>>

(* Any other answer ends the loop with conn_ok or auth_ok false.           *)
CliRefused(k) ==
  /\ cpc \in {"conn", "auth"} /\ s2c /= <<>>
  /\ Head(s2c) \notin CliAccepts(copsent)
  /\ s2c' = Drop(s2c, k)
  /\ cbuf' = Head(s2c)
  /\ cpc' = "closed"
  /\ UNCHANGED <<c2s, left, done, go, apc, copsent, srvV>>

(* readline() returns after all_systems_go went false.                     *)
CliLeave ==
  /\ cpc = "prompt" /\ ~go
  /\ cpc' = "join"
  /\ UNCHANGED <<chans, left, done, go, apc, cbuf, copsent, srvV>>

(* An empty line, one without a closing ';', or one that could not be      *)
(* encrypted sends nothing and goes straight to wait_done().               *)
CliNothing ==
  /\ cpc = "prompt" /\ go
  /\ cpc' = "wait"
  /\ UNCHANGED <<chans, left, done, go, apc, cbuf, copsent, srvV>>

(* "exit" or "quit": reset(OP_TERM_SYN); set_done(false).                  *)
CliExit ==
  /\ cpc = "prompt" /\ go
  /\ cbuf' = OP_TERM_SYN
  /\ done' = FALSE
  /\ left' = 0
  /\ cpc' = "flush"
  /\ UNCHANGED <<chans, go, apc, copsent, srvV>>

(* A line of n statements: reset(OP_STMT_SYN), put(), set_done(false) for  *)
(* the first; CliFlush sends it and goes on to the next one.               *)
CliLine(n) ==
  /\ cpc = "prompt" /\ go
  /\ cbuf' = OP_STMT_SYN
  /\ done' = FALSE
  /\ left' = n - 1
  /\ cpc' = "flush"
  /\ UNCHANGED <<chans, go, apc, copsent, srvV>>

(* Fault for TypeOK: the loop over the statements runs once too often.     *)
CliFlushOneMore ==
  /\ cpc = "flush"
  /\ CliSend(cbuf)
  /\ cpc' = IF left < 0 THEN "wait" ELSE "compose"
  /\ UNCHANGED <<s2c, left, done, go, apc, srvV>>

(* flush(): m_opsent and the message take the opcode the buffer holds NOW. *)
CliFlush ==
  /\ cpc = "flush"
  /\ CliSend(cbuf)
  /\ cpc' = IF left = 0 THEN "wait" ELSE "compose"
  /\ UNCHANGED <<s2c, left, done, go, apc, srvV>>

CliCompose ==
  /\ cpc = "compose"
  /\ cbuf' = OP_STMT_SYN
  /\ done' = FALSE
  /\ left' = left - 1
  /\ cpc' = "flush"
  /\ UNCHANGED <<chans, go, apc, copsent, srvV>>

(* Fault for Framed and CliRowExists: the prompt comes back without the    *)
(* answer.                                                                 *)
CliWaitNot ==
  /\ cpc = "wait"
  /\ cpc' = IF go THEN "prompt" ELSE "join"
  /\ UNCHANGED <<chans, left, done, go, apc, cbuf, copsent, srvV>>

(* wait_done(): under mtx the predicate is tested; when it is false the    *)
(* thread blocks, in a second step, and releases mtx.                      *)
CliWait ==
  /\ cpc = "wait"
  /\ cpc' = IF ~done THEN "armed" ELSE IF go THEN "prompt" ELSE "join"
  /\ UNCHANGED <<chans, left, done, go, apc, cbuf, copsent, srvV>>

CliBlock ==
  /\ cpc = "armed"
  /\ cpc' = "blocked"
  /\ UNCHANGED <<chans, left, done, go, apc, cbuf, copsent, srvV>>

(* cli_thrd.join(); main() returns and the connection is closed.           *)
CliJoin ==
  /\ cpc = "join" /\ apc = "gone"
  /\ cpc' = "closed"
  /\ UNCHANGED <<chans, left, done, go, apc, cbuf, copsent, srvV>>

-----------------------------------------------------------------------------
(* The client's agent thread: cli_agent() runs fsm::loop().                *)

(* recv(), then the table: the row of the last opcode sent decides between *)
(* rcvd() and nop().  rcvd() reads the opcode from the buffer again.       *)
CliRecv(k) ==
  /\ apc = "recv" /\ s2c /= <<>>
  /\ Head(s2c) \in CliAccepts(copsent)
  /\ cbuf' = Head(s2c)
  /\ s2c' = Drop(s2c, k)
  /\ apc' = "handle"
  /\ UNCHANGED <<c2s, mainV, done, go, copsent, srvV>>

CliNop(k) ==
  /\ apc = "recv" /\ s2c /= <<>>
  /\ copsent \in CliRows /\ Head(s2c) \notin CliAccepts(copsent)
  /\ cbuf' = Head(s2c)
  /\ s2c' = Drop(s2c, k)
  /\ apc' = "over"
  /\ UNCHANGED <<c2s, mainV, done, go, copsent, srvV>>

(* The row m_fsm[m_opsent] does not exist: the process dies.               *)
CliNoRow(k) ==
  /\ apc = "recv" /\ s2c /= <<>>
  /\ copsent \notin CliRows
  /\ cbuf' = Head(s2c)
  /\ s2c' = Drop(s2c, k)
  /\ apc' = "gone" /\ cpc' = "closed"
  /\ UNCHANGED <<c2s, left, done, go, copsent, srvV>>

(* rcvd(), case OP_RSLT_SYN: print, reset(OP_RSLT_ACK), then flush().      *)
CliChunk ==
  /\ apc = "handle" /\ cbuf = OP_RSLT_SYN
  /\ cbuf' = OP_RSLT_ACK
  /\ apc' = "ack"
  /\ UNCHANGED <<chans, mainV, done, go, copsent, srvV>>

CliAck ==
  /\ apc = "ack"
  /\ CliSend(cbuf)
  /\ apc' = "recv"
  /\ UNCHANGED <<s2c, mainV, done, go, srvV>>

(* Fault for Answered: only OP_RSLT_FIN ends the wait.                     *)
CliAnswerFinOnly ==
  /\ apc = "handle" /\ cbuf \in {OP_RSLT_FIN, OP_STMT_ERR}
  /\ cpc /= "armed"
  /\ apc' = IF cbuf = OP_RSLT_FIN THEN "setdone" ELSE "recv"
  /\ UNCHANGED <<chans, mainV, done, go, cbuf, copsent, srvV>>

(* cases OP_RSLT_FIN and OP_STMT_ERR: print, set_done(true).               *)
(* set_done() locks mtx only for the lifetime of a temporary: it cannot    *)
(* pass while the waiter holds mtx, but done is assigned after the unlock. *)
CliAnswer ==
  /\ apc = "handle" /\ cbuf \in {OP_RSLT_FIN, OP_STMT_ERR}
  /\ cpc /= "armed"
  /\ apc' = "setdone"
  /\ UNCHANGED <<chans, mainV, done, go, cbuf, copsent, srvV>>

(* case OP_TERM_ACK: term(), all_systems_go = false, set_done(true).       *)
CliTerm ==
  /\ apc = "handle" /\ cbuf = OP_TERM_ACK
  /\ cpc /= "armed"
  /\ go' = FALSE
  /\ apc' = "lastdone"
  /\ UNCHANGED <<chans, mainV, done, cbuf, copsent, srvV>>

(* case OP_TERM_SYN: the same after an OP_TERM_ACK.                        *)
CliTermSyn ==
  /\ apc = "handle" /\ cbuf = OP_TERM_SYN
  /\ cpc /= "armed"
  /\ CliSend(OP_TERM_ACK)
  /\ go' = FALSE
  /\ apc' = "lastdone"
  /\ UNCHANGED <<s2c, mainV, done, srvV>>

(* case OP_CONN_ERR: conn_ok = false (not read any more), term().  Its     *)
(* number is that of the OP_STMT_SYN the main thread may just have put     *)
(* into the buffer.                                                        *)
CliConnErr ==
  /\ apc = "handle" /\ cbuf = OP_CONN_ERR
  /\ apc' = "over"
  /\ UNCHANGED <<chans, mainV, done, go, cbuf, copsent, srvV>>

(* done = true; notify_one() wakes the main thread only if it is blocked.  *)
Notify ==
  /\ done' = TRUE
  /\ cpc' = IF cpc = "blocked" THEN "wait" ELSE cpc

CliSetDone ==
  /\ apc \in {"setdone", "lastdone"}
  /\ Notify
  /\ apc' = IF apc = "setdone" THEN "recv" ELSE "over"
  /\ UNCHANGED <<chans, left, go, cbuf, copsent, srvV>>

(* cli_agent() after the loop: set_done(true), then set_exit().            *)
CliOver ==
  /\ apc = "over" /\ cpc /= "armed"
  /\ apc' = "overdone"
  /\ UNCHANGED <<chans, mainV, done, go, cbuf, copsent, srvV>>

CliOverDone ==
  /\ apc = "overdone"
  /\ Notify
  /\ apc' = "setexit"
  /\ UNCHANGED <<chans, left, go, cbuf, copsent, srvV>>

CliSetExit ==
  /\ apc = "setexit" /\ cpc /= "armed"
  /\ go' = FALSE
  /\ apc' = "gone"
  /\ UNCHANGED <<chans, mainV, done, cbuf, copsent, srvV>>

-----------------------------------------------------------------------------
(* The environment: comm_server() accepts whoever connects to its port.    *)
(* Another program sends requests of comm.h in any order, answers nothing  *)
(* it does not want to, and goes when it likes.                            *)
OtherConnect ==
  /\ AnyClient /\ cpc = "start"
  /\ cpc' = "other"
  /\ UNCHANGED <<chans, left, done, go, apc, cbuf, copsent, srvV>>

OtherSend(op) ==
  /\ cpc = "other" /\ Room(c2s)
  /\ c2s' = Append(c2s, op)
  /\ UNCHANGED <<s2c, cliV, srvV>>

OtherRecv(k) ==
  /\ cpc = "other"
  /\ s2c' = Drop(s2c, k)
  /\ UNCHANGED <<c2s, cliV, srvV>>

OtherClose ==
  /\ cpc = "other"
  /\ cpc' = "closed"
  /\ UNCHANGED <<chans, left, done, go, apc, cbuf, copsent, srvV>>

-----------------------------------------------------------------------------
(* The server thread of the session.                                       *)

(* fsm::flush() with opcode op in the buffer.                              *)
SrvSend(op) ==
  /\ Room(s2c)
  /\ s2c' = Append(s2c, op)
  /\ sbuf' = op
  /\ sopsent' = op

(* fsm::loop() at its outer level takes k messages and passes op to rcvd() *)
SrvTake(k, op) ==
  /\ spc = "loop" /\ c2s /= <<>>
  /\ Head(c2s) = op /\ op \in SrvAccepts(sopsent)
  /\ c2s' = Drop(c2s, k)

(* nop() in the outer loop: the loop and with it the thread end.           *)
SrvNop(k) ==
  /\ spc = "loop" /\ c2s /= <<>>
  /\ Head(c2s) \notin SrvAccepts(sopsent)
  /\ c2s' = Drop(c2s, k)
  /\ sbuf' = Head(c2s)
  /\ sloop' = "term"
  /\ spc' = "end"
  /\ UNCHANGED <<s2c, cliV, sopsent, chunks, user>>

SrvConn(k) ==
  /\ SrvTake(k, OP_CONN_SYN)
  /\ SrvSend(OP_CONN_ACK)
  /\ UNCHANGED <<cliV, spc, sloop, chunks, user>>

(* rcvd(), case OP_AUTH_SYN: authenticate() found the credentials.         *)
SrvAuthAck(k) ==
  /\ SrvTake(k, OP_AUTH_SYN)
  /\ SrvSend(OP_AUTH_ACK)
  /\ user' = TRUE
  /\ UNCHANGED <<cliV, spc, sloop, chunks>>

(* They are not there: OP_AUTH_ERR and term().  When authenticate() failed *)
(* with an exception it has sent an OP_AUTH_ERR of its own before (n = 2). *)
SrvAuthErr(k, n) ==
  /\ SrvTake(k, OP_AUTH_SYN)
  /\ Len(s2c) + n <= MaxQueue
  /\ s2c' = s2c \o [i \in 1..n |-> OP_AUTH_ERR]
  /\ sbuf' = OP_AUTH_ERR /\ sopsent' = OP_AUTH_ERR
  /\ sloop' = "term"
  /\ spc' = "end"
  /\ UNCHANGED <<cliV, chunks, user>>

(* The credentials could not be decrypted: report_error(), no term().      *)
SrvAuthFail(k) ==
  /\ SrvTake(k, OP_AUTH_SYN)
  /\ SrvSend(OP_AUTH_ERR)
  /\ UNCHANGED <<cliV, spc, sloop, chunks, user>>

SrvTerm(k) ==
  /\ SrvTake(k, OP_TERM_SYN)
  /\ SrvSend(OP_TERM_ACK)
  /\ sloop' = "term"
  /\ spc' = "end"
  /\ UNCHANGED <<cliV, chunks, user>>

(* case OP_RSLT_ACK outside of a result: term() ends the loop.             *)
SrvResultAck(k) ==
  /\ SrvTake(k, OP_RSLT_ACK)
  /\ sbuf' = OP_RSLT_ACK
  /\ sloop' = "term"
  /\ spc' = "end"
  /\ UNCHANGED <<s2c, cliV, sopsent, chunks, user>>

(* case OP_STMT_SYN: the statement, or the first one of a SOURCE script,   *)
(* is compiled and a vm starts to execute it.                              *)
SrvStmt(k) ==
  /\ SrvTake(k, OP_STMT_SYN)
  /\ sbuf' = OP_STMT_SYN
  /\ spc' = "exec"
  /\ chunks' = 0
  /\ UNCHANGED <<s2c, cliV, sopsent, sloop, user>>

(* A block of the result is flushed.  The first one follows reset(SYN); a  *)
(* later one is sent from put() with the opcode left in the buffer.  After *)
(* OP_RSLT_SYN the flush callback runs cont() and a nested loop().         *)
SrvChunk(op) ==
  /\ spc = "exec" /\ chunks < MaxChunks
  /\ op = OP_RSLT_SYN \/ (chunks > 0 /\ op = sbuf)
  /\ SrvSend(op)
  /\ chunks' = chunks + 1
  /\ IF op = OP_RSLT_SYN THEN spc' = "ack" /\ sloop' = "cont"
                         ELSE UNCHANGED <<spc, sloop>>
  /\ UNCHANGED <<c2s, cliV, user>>

(* Fault for ChunkOpcode: the acknowledgement does not stay in the buffer. *)
SrvChunkAckedReset(k) ==
  /\ spc = "ack" /\ c2s /= <<>>
  /\ Head(c2s) /= OP_TERM_SYN
  /\ c2s' = Drop(c2s, k)
  /\ sbuf' = OP_NULL
  /\ sloop' = "term"
  /\ spc' = "exec"
  /\ UNCHANGED <<s2c, cliV, sopsent, chunks, user>>

(* The nested loop ends after one receive, whatever it was: RSLT_ACK is    *)
(* term(), an unexpected opcode is nop().                                  *)
SrvChunkAcked(k) ==
  /\ spc = "ack" /\ c2s /= <<>>
  /\ Head(c2s) /= OP_TERM_SYN
  /\ c2s' = Drop(c2s, k)
  /\ sbuf' = Head(c2s)
  /\ sloop' = "term"
  /\ spc' = "exec"
  /\ UNCHANGED <<s2c, cliV, sopsent, chunks, user>>

SrvChunkTerm(k) ==
  /\ spc = "ack" /\ c2s /= <<>>
  /\ Head(c2s) = OP_TERM_SYN
  /\ c2s' = Drop(c2s, k)
  /\ SrvSend(OP_TERM_ACK)
  /\ sloop' = "term"
  /\ spc' = "exec"
  /\ UNCHANGED <<cliV, chunks, user>>

(* A vm of a SOURCE script returns and the next statement starts: ret()    *)
SrvNextOfScript ==
  /\ spc = "exec" /\ chunks > 0 /\ sloop = "term"
  /\ sloop' = "cont"
  /\ UNCHANGED <<chans, cliV, spc, sbuf, sopsent, chunks, user>>

(* The vm ends its statement: fsm_flush() with OP_RSLT_FIN, then ret().    *)
SrvFinish ==
  /\ "fin" \in Outcomes
  /\ spc = "exec"
  /\ SrvSend(OP_RSLT_FIN)
  /\ sloop' = "cont"
  /\ spc' = "loop"
  /\ UNCHANGED <<c2s, cliV, chunks, user>>

(* The statement throws: report_error() with OP_STMT_ERR.  ret() has not   *)
(* run, so m_loop is what the last nested loop left.                       *)
SrvError ==
  /\ "err" \in Outcomes
  /\ spc = "exec"
  /\ SrvSend(OP_STMT_ERR)
  /\ spc' = IF sloop = "cont" THEN "loop" ELSE "end"
  /\ UNCHANGED <<c2s, cliV, sloop, chunks, user>>

(* No answer: an empty SOURCE script, or an exception that is not a        *)
(* std::runtime_error and is only logged.                                  *)
SrvSilent ==
  /\ "silent" \in Outcomes
  /\ spc = "exec"
  /\ spc' = IF sloop = "cont" THEN "loop" ELSE "end"
  /\ UNCHANGED <<chans, cliV, sbuf, sopsent, sloop, chunks, user>>

(* The client has closed the connection: recv() returns 0, which leaves    *)
(* the loop with m_loop unchanged, or throws; a send throws.               *)
SrvPeerGone ==
  /\ cpc = "closed"
  /\ \/ spc = "loop" /\ c2s = <<>> /\ spc' = "end"
     \/ spc = "ack" /\ c2s = <<>> /\ spc' \in {"exec", "end"}
     \/ spc = "exec" /\ spc' = "end"
  /\ UNCHANGED <<chans, cliV, sbuf, sopsent, sloop, chunks, user>>

-----------------------------------------------------------------------------
MainStep ==
  \/ CliConnect \/ CliFlush \/ CliCompose \/ CliWait \/ CliBlock
  \/ CliLeave \/ CliJoin
  \/ \E k \in 1..Len(s2c) : CliConnAck(k) \/ CliAuthAck(k) \/ CliRefused(k)

Input == CliNothing \/ CliExit \/ \E n \in 1..MaxBatch : CliLine(n)

AgentStep ==
  \/ \E k \in 1..Len(s2c) : CliRecv(k) \/ CliNop(k) \/ CliNoRow(k)
  \/ CliChunk \/ CliAck \/ CliAnswer \/ CliTerm \/ CliTermSyn \/ CliConnErr
  \/ CliSetDone \/ CliOver \/ CliOverDone \/ CliSetExit

OtherStep ==
  \/ OtherConnect \/ OtherClose
  \/ \E op \in CliRows : OtherSend(op)
  \/ \E k \in 1..Len(s2c) : OtherRecv(k)

Server ==
  \/ \E k \in 1..Len(c2s) :
        \/ SrvNop(k) \/ SrvConn(k) \/ SrvAuthAck(k)
        \/ \E n \in 1..2 : SrvAuthErr(k, n)
        \/ SrvAuthFail(k) \/ SrvTerm(k) \/ SrvStmt(k) \/ SrvResultAck(k)
        \/ SrvChunkAcked(k) \/ SrvChunkTerm(k)
  \/ \E op \in Opcodes : SrvChunk(op)
  \/ SrvNextOfScript \/ SrvFinish \/ SrvError \/ SrvSilent \/ SrvPeerGone

Next == MainStep \/ Input \/ AgentStep \/ OtherStep \/ Server

(* Threads are scheduled and the connection delivers; the person at the    *)
(* prompt need not type.                                                   *)
Fairness == WF_vars(MainStep) /\ WF_vars(AgentStep) /\ WF_vars(Server)

Spec == Init /\ [][Next]_vars
FairSpec == Spec /\ Fairness

-----------------------------------------------------------------------------
(* Every variable has a value the code can give it.                        *)
TypeOK ==
  /\ c2s \in Seq(Opcodes) /\ s2c \in Seq(Opcodes)
  /\ cpc \in {"start", "conn", "auth", "prompt", "flush", "compose", "wait",
              "armed", "blocked", "join", "closed", "other"}
  /\ left \in 0..MaxBatch
  /\ done \in BOOLEAN /\ go \in BOOLEAN
  /\ apc \in {"off", "recv", "handle", "ack", "setdone", "lastdone", "over",
              "overdone", "setexit", "gone"}
  /\ cbuf \in Opcodes /\ copsent \in Opcodes
  /\ spc \in {"loop", "exec", "ack", "end"}
  /\ sbuf \in Opcodes /\ sopsent \in Opcodes /\ sloop \in {"cont", "term"}
  /\ chunks \in 0..MaxChunks /\ user \in BOOLEAN

(* The server checks nothing but its table: OP_STMT_SYN is admitted only   *)
(* behind a chain of answers that starts at OP_AUTH_ACK.  So no statement  *)
(* is executed for a session whose credentials were not found, whatever    *)
(* program connects, in whatever order it sends its requests and however   *)
(* they run together.                                                      *)
AuthBeforeExec == spc \in {"exec", "ack"} => user

(* With one statement per line the protocol is a strict dialogue, which is *)
(* what replaces message framing: at most one message is under way in both *)
(* directions together, except for the two OP_AUTH_ERR of a failed         *)
(* authenticate(), and so no receive ever swallows a second message.       *)
Framed ==
  \/ Len(c2s) + Len(s2c) <= 1
  \/ c2s = <<>> /\ s2c = <<OP_AUTH_ERR, OP_AUTH_ERR>>

(* fsm::flush() does not restore OP_RSLT_SYN to the buffer for the next    *)
(* block of a result: it relies on the acknowledgement, received into the  *)
(* same buffer, having the same number.                                    *)
ChunkOpcode == spc = "exec" /\ chunks > 0 => sbuf = OP_RSLT_SYN

(* An OP_STMT_ERR reaches rcvd(), which prints it, whenever no block of    *)
(* the statement's result went before it.  (Behind a block the row is that *)
(* of OP_RSLT_ACK: the error goes to nop(), unprinted, and the client      *)
(* ends.)                                                                  *)
ErrorShown ==
  apc = "recv" /\ s2c /= <<>> /\ Head(s2c) = OP_STMT_ERR /\ chunks = 0
     => OP_STMT_ERR \in CliAccepts(copsent)

(* The client process never indexes its table outside its rows.            *)
CliRowExists == copsent \in CliRows

(* What the client sent is answered: done, which the main thread cleared   *)
(* before the send, is set again or the session is known to be over.  (The *)
(* wakeup that goes with done can be lost between CliWait and CliBlock;    *)
(* the property is about the answer, not about the wakeup.)                *)
Answered == ~done ~> (done \/ ~go)
=============================================================================
