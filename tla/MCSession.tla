------------------------------ MODULE MCSession ------------------------------
(* Session with every verb and its options from a good configuration and a plain shell,   *)
(* and a verb of each sort from every configuration and every shell below.                 *)
EXTENDS Session

MCBasic == [schemes |-> {"basic"}, username |-> "admin", secrets |-> {"file"}, keyringNamed |-> FALSE]
MCBearer == [schemes |-> {"bearer"}, username |-> "none", secrets |-> {"keyring"}, keyringNamed |-> TRUE]
MCContext(n, auth, ro) ==
    [name |-> n, url |-> "https", auth |-> auth, roles |-> {"named"}, readOnly |-> ro]
MCFile(current, contexts) == [whole |-> TRUE, current |-> current, contexts |-> contexts]

MCGood == MCFile("lab", <<MCContext("lab", MCBasic, FALSE), MCContext("prod", MCBearer, TRUE)>>)
MCProd == [MCGood EXCEPT !.current = "prod"]

MCAuths ==
    {[MCBasic EXCEPT !.schemes = {}], [MCBasic EXCEPT !.schemes = {"basic", "bearer"}],
     [MCBasic EXCEPT !.username = "blank"], [MCBasic EXCEPT !.secrets = {"file", "plain"}],
     [MCBasic EXCEPT !.secrets = {}], [MCBearer EXCEPT !.keyringNamed = FALSE],
     [MCBearer EXCEPT !.secrets = {}]}
MCFiles ==
    {None, MCProd, [MCGood EXCEPT !.whole = FALSE], [MCGood EXCEPT !.current = None],
     [MCGood EXCEPT !.current = "gone"], [MCGood EXCEPT !.contexts[2].name = "lab"],
     [MCGood EXCEPT !.contexts[1].roles = {"padded"}], [MCGood EXCEPT !.contexts[1].url = "ftp"],
     MCFile(None, << >>)}
        \cup {[MCGood EXCEPT !.contexts[1].auth = a] : a \in MCAuths}

MCPlain ==
    [env |-> [context |-> "", url |-> "", password |-> "", token |-> "", readOnly |-> ""],
     flags |-> [context |-> None, url |-> None, readOnly |-> FALSE],
     readable |-> {"keyring", "file"}]
MCShells ==
    {[MCPlain EXCEPT !.env.readOnly = ro, !.env.context = c, !.flags.context = f,
                     !.flags.readOnly = r] :
        ro \in {"", "0", "1", "junk"}, c \in {"", "prod", "lab"},
        f \in {None, "lab", "prod", "gone"}, r \in BOOLEAN}
        \cup {[MCPlain EXCEPT !.env.url = "garbage"], [MCPlain EXCEPT !.flags.url = "https"],
              [MCPlain EXCEPT !.readable = {}], [MCPlain EXCEPT !.readable = {}, !.env.token = "t"],
              [MCPlain EXCEPT !.readable = {}, !.env.password = "p"]}

MCOpts == [yes |-> FALSE, wait |-> FALSE, force |-> FALSE, all |-> FALSE, byId |-> FALSE,
           yaml |-> FALSE, defaults |-> FALSE, vendorOnly |-> FALSE]
MCOptions(v) ==
    {[yes |-> y, wait |-> w, force |-> f, all |-> a, byId |-> b, yaml |-> x, defaults |-> d, vendorOnly |-> e] :
        y \in {FALSE} \cup {v \in {"req delete", "user delete"}},
        w \in {FALSE} \cup {v = "req import"},
        f \in {FALSE} \cup {v \in {"thr group delete", "thr export", "source export",
                                   "source download", "source convert"}},
        a \in {FALSE} \cup {v \in {"user export", "source export", "snmp lookup", "req export",
                                   "dc list"}},
        b \in {FALSE} \cup {v \in {"source download", "source export"}},
        x \in {FALSE} \cup {v = "source download"},
        d \in {FALSE} \cup {v = "req export"},
        e \in {FALSE} \cup {v = "event list"}}

MCStart(v, o, f, s, files, before) ==
    [verb |-> v, opts |-> o, file |-> f, shell |-> s, files |-> files, before |-> before]
MCEmits == {"req export", "req convert", "thr export", "source export",
            "source download", "source convert"}
MCOutputs(v) ==
    IF v \in MCEmits THEN {<<"a", "b">>, <<"a", "a">>, <<"a", "unsafe">>} ELSE {<< >>}

MCVerbs == ServerVerbs \cup ConfigVerbs
MCStarts ==
    UNION {{MCStart(v, o, MCGood, MCPlain, out, before) :
                o \in MCOptions(v), out \in MCOutputs(v),
                before \in IF v \in MCEmits THEN {{}, {"b"}} ELSE {{}}} : v \in MCVerbs}
        \cup {MCStart(v, MCOpts, f, MCPlain, << >>, {}) :
                v \in {"maint delete", "iam whoami", "config use-context", "config view",
                       "graph convert"}, f \in MCFiles}
        \cup {MCStart(v, MCOpts, f, s, << >>, {}) :
                v \in {"maint delete", "maint list"}, f \in {MCGood, MCProd}, s \in MCShells}
MCEdits == {MCGood, MCProd, [MCGood EXCEPT !.contexts[2].readOnly = FALSE]}
=============================================================================
