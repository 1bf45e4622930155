---------------------------- MODULE MCStubDriver ----------------------------
(* Values for the constants of StubDriver. *)
EXTENDS StubDriver

\* What a body may say: nothing, one diagnostic of each kind, and pairs of them.
Says ==
  {[first |-> k, second |-> "unreachable"] : k \in Kinds}
    \union {[first |-> "error", second |-> "unimplemented"],
            [first |-> "info", second |-> "unimplemented"]}

\* No parameter, as many as arguments, too many; more than five arguments passed
\* one by one, or as a vector.
Arities == {<<0, 1>>, <<1, 1>>, <<2, 1>>, <<6, 6>>, <<2, 6>>}

\* Every body with a matching arity, and every arity and end with a silent body.
AllStubs ==
  {s \in [params : 0 .. 6, args : {1, 6}, says : Says,
          ends : {"value", "void", "never", "crash"}, shape : {"fits", "wrong"}] :
     /\ <<s.params, s.args>> \in Arities
     /\ s.ends # "value" => s.shape = "fits"
     /\ \/ s.params = 1
        \/ s.says = [first |-> "unreachable", second |-> "unreachable"]}

GlobalFlow(alive, kind) ==
  [alive |-> alive, report |-> [NoReport EXCEPT ![<<0, "first">>] = kind]]

AllGlobals == {GlobalFlow(TRUE, "safe"), GlobalFlow(TRUE, "unimplemented"),
               GlobalFlow(FALSE, "error")}
=============================================================================
