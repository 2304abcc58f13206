----------------------------- MODULE MCSession -----------------------------
(* Programs for the composition. *)
EXTENDS Session

CONSTANT worker

\* The calls of examples/rust/basic.rs, main.
BasicExample == <<
  Call("register", worker), Call("spawn", worker), Call("subscribe", worker),
  Call("stdin", worker), Call("recv", worker), Call("status", NoName),
  Call("list", NoName), Call("kill", worker)>>

\* A worker whose output is paused and heard again.
PauseAndResume == <<
  Call("register", worker), Call("spawn", worker), Call("subscribe", worker),
  Call("unsubscribe", worker), Call("interrupt", worker), Call("subscribe", worker),
  Call("recv", worker), Call("kill", worker)>>

\* Registers too late to hear everything, and for a while not at all.
LateRegister == <<
  Call("spawn", worker), Call("subscribe", worker), Call("register", worker),
  Call("recv", worker), Call("unregister", worker), Call("unknown", NoName)>>

\* Writes more to its worker than the pipe takes.
FillStdin == <<
  Call("spawn", worker), Call("stdin", worker), Call("stdin", worker), Call("status", NoName)>>

\* Asks for a spawn without an executable, which the server does not survive.
SpawnNothing == <<Call("spawn_noargs", worker), Call("list", NoName)>>

MCPrograms == {BasicExample, PauseAndResume, LateRegister, FillStdin, SpawnNothing}
=============================================================================
