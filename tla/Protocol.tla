------------------------------ MODULE Protocol ------------------------------
(***************************************************************************)
(* The wire protocol of procmux (rs/src/protocol.rs): what a line from the *)
(* client asks for, and the messages the server sends back.  Payloads are  *)
(* opaque to the server, so a relayed line is identified by the child that *)
(* wrote it, the pipe it was read from and its position in that pipe.      *)
(***************************************************************************)
EXTENDS Integers, Sequences

CONSTANTS
  Names,    \* the names clients give to processes (CmdMsg.name, StdinMsg.name)
  Pids,     \* the children the operating system can create, each used once
  Codes,    \* the exit codes a child can choose
  NoName, NoPid, NoCode   \* None of the corresponding Option types

ASSUME NoneAssumption ==
  /\ NoName \notin Names
  /\ NoPid \notin Pids
  /\ NoCode \notin Codes

(***************************************************************************)
(* What a line means to handle_client_line: a command (ClientMsg::Cmd), a  *)
(* stdin message (ClientMsg::Stdin), or bytes that are neither.  A spawn   *)
(* names a program that starts, a program the operating system cannot      *)
(* start, or no program at all (cli_args defaults to the empty vector).    *)
(***************************************************************************)
SpawnRequests == {"spawn", "spawn_missing", "spawn_noargs"}

Requests == SpawnRequests \union
  {"kill", "interrupt", "subscribe", "unsubscribe", "list", "status", "unknown",
   "stdin",
   "garbage",        \* not a message; byte 200 is a character boundary
   "garbage_split",  \* not a message; byte 200 is inside a character
   "nonutf8"}        \* not text

(***************************************************************************)
(* StdoutMsg, StderrMsg and ExitMsg.  from, pipe and seq identify the      *)
(* relayed line; they are not on the wire.  An Exit follows the last line  *)
(* of the stdout pipe and takes the next position in it.                   *)
(***************************************************************************)
Pipes == {"stdout", "stderr"}

Output == [kind : {"stdout", "stderr", "exit"}, name : Names, from : Pids,
           pipe : Pipes, seq : Nat, code : Codes \union {NoCode}]

StdoutMsg(n, p, i) ==
  [kind |-> "stdout", name |-> n, from |-> p, pipe |-> "stdout", seq |-> i, code |-> NoCode]

StderrMsg(n, p, pipe, i) ==
  [kind |-> "stderr", name |-> n, from |-> p, pipe |-> pipe, seq |-> i, code |-> NoCode]

ExitMsg(n, p, i) ==
  [kind |-> "exit", name |-> n, from |-> p, pipe |-> "stdout", seq |-> i, code |-> NoCode]

(***************************************************************************)
(* ResultMsg.  re is the position on its connection of the command that    *)
(* was answered; it is not on the wire, where nothing ties a result to the *)
(* command it answers.                                                     *)
(***************************************************************************)
Result == [kind : {"result"}, re : Nat, ok : BOOLEAN, name : Names \union {NoName},
           cmd : Requests, replayed : Nat]

ResultOk(k, cmd, n) ==
  [kind |-> "result", re |-> k, ok |-> TRUE, name |-> n, cmd |-> cmd, replayed |-> 0]

ResultErr(k, cmd, n) == [ResultOk(k, cmd, n) EXCEPT !.ok = FALSE]

Message == Output \union Result
=============================================================================
