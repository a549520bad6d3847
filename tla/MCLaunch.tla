------------------------------- MODULE MCLaunch -------------------------------
(***************************************************************************)
(* Images, requests and command lines small enough to enumerate, with the  *)
(* empty argument, the repeated key and the broken line among them, and    *)
(* numbers on both sides of what eight and 32 bits hold.                   *)
(***************************************************************************)
EXTENDS Launch, TLC

(* -1, 0, 512, the largest of 32 bits, the first that needs more, and what *)
(* is 512 again without the bits beyond.                                   *)
MCMemories ==
  {[high |-> -1, low |-> 65535], MiB(0), MiB(512),
   [high |-> 65535, low |-> 65535], [high |-> 65536, low |-> 0],
   [high |-> 65536, low |-> 512]}

MCWords == STRING

Commands == {<<>>, <<"run">>, <<"run", "a">>, <<"run", "", "a">>}

MCImages ==
  [entrypoint : Commands, cmd : {<<>>, <<"b">>, <<"b", "c">>},
   env : {<<>>, <<<<"PATH", "/bin">>>>,
          <<<<"PATH", "/bin">>, <<"KRUN_HOSTNAME", "x">>, <<"PATH", "/sbin">>>>},
   workdir : {"", "/srv"}]

MCRequests ==
  {[vcpus |-> n, memory |-> m, rootfs |-> r, path |-> p, args |-> a, env |-> e,
    workdir |-> "", volumes |-> <<"vol">>] :
     n \in {-1, 0, 1, 256}, m \in MCMemories, r \in {"", "/home"},
     p \in {"", "/bin/sh", "/usr/local/bin/vminit"},
     a \in {<<>>, <<"a">>}, e \in {<<>>, "TERM" :> "vt100"}}

MCHostEnv == "HOME" :> "/Users/me"

MCNewline == "\n"

MCExecArgs ==
  {<<>>, <<<<"ls">>>>, <<<<"ls">>, <<"my", "file">>>>, <<<<>>, <<"ls">>>>,
   <<<<"ls", MCNewline, "rm">>>>}

MCNumber == "120" :> 120 @@ "40" :> 40 @@ "65536" :> 65536

MCUsers == {<<"root">>, <<"john", "doe">>, <<"root", "65536">>}

=============================================================================
