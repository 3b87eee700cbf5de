---------------------------- MODULE MCOnboarding ----------------------------
(* A TLC instance of Onboarding.                                            *)
EXTENDS Onboarding

Nothing == [f \in FILES |-> NoFile]
Config(p, secret) ==
    [providers |-> Whole(p :> secret), models |-> Whole("m" :> p),
     channels |-> Whole("home" :> Credential("home")),
     preferences |-> Whole([default |-> {<<p, "m">>}, pulse |-> FALSE])]
User == [file |-> "user", bak |-> Missing]

Bounds(e, s, f, c) == [edits |-> e, submits |-> s, faults |-> f, crashes |-> c]
Come(files, keys, keychain, bounds) ==
    [disk |-> files, secrets |-> keys, native |-> keychain, guide |-> User, left |-> bounds]
OwnKey(p) == Whole(SecretOf(p) :> "old")

\* A first start; a builtin provider with a stored key, with a fault and a second setup,
\* or a crash; a custom one; one whose key has a name of its own; and two with a models
\* file that names a provider that is gone, or does not parse.
Known ==
    {Come(Nothing, NoFile, FALSE, Bounds(3, 1, 0, 0)),
     Come(Config("zai", SecretOf("zai")), OwnKey("zai"), FALSE, Bounds(1, 2, 1, 0)),
     Come(Config("zai", SecretOf("zai")), OwnKey("zai"), FALSE, Bounds(0, 2, 0, 1)),
     Come(Config("own", SecretOf("own")), OwnKey("own"), TRUE, Bounds(2, 1, 0, 0)),
     Come(Config("own", <<"mine", "key">>), Whole(<<"mine", "key">> :> "old"), FALSE,
          Bounds(1, 1, 0, 0))}
    \cup {Come([Config("zai", SecretOf("zai")) EXCEPT !.models = file], OwnKey("zai"), TRUE,
               Bounds(0, 2, 1, 0)) : file \in {Whole("n" :> "gone"), TornFile}}
=============================================================================
