----------------------------- MODULE MCConfig -------------------------------
(* Every environment variable with every pair of options; every TLS option *)
(* with every kind of file; texts that are too long, relative paths.       *)
EXTENDS Config

UpToOne(S) == {{}} \cup {{x} : x \in S}
UpToTwo(S) == {{}} \cup {{x, y} : x, y \in S}

Plain(env, args) ==
    [env |-> env, args |-> args, long |-> {}, relative |-> FALSE, missing |-> {},
     badfile |-> FALSE]

Options == Switches \cup Texts \cup {"help"}

MCInputs ==
    {Plain(env, args) : env \in UpToOne(Switches \cup Texts), args \in UpToTwo(Options)}
      \cup {[Plain(env, args \cup TlsTexts) EXCEPT !.missing = m, !.badfile = b] :
               env \in SUBSET TlsTexts, args \in UpToOne(Options),
               m \in SUBSET {"tls_cert_file", "tls_key_file"}, b \in BOOLEAN}
      \cup {[Plain(env, args) EXCEPT !.long = l, !.relative = r] :
               env \in UpToTwo(CTexts), args \in UpToTwo(CTexts),
               l \in UpToOne({"env", "cli"} \X CTexts), r \in BOOLEAN}

\* One of the variables of the six flags, and no options.
MCEnvInputs == {Plain({v}, {}) : v \in Assigned}
=============================================================================
