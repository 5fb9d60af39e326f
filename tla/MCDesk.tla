-------------------------------- MODULE MCDesk --------------------------------
(***************************************************************************)
(* Small instances of the parts of Desk.                                   *)
(***************************************************************************)
EXTENDS Desk

CONSTANTS i1, i2, Claude1, Gpt, Gemini, Own

On(y, m, d) == ToDays(Date(y, m, d))

(* Month ends, leap days, a century that leaps and one that does not.      *)
MCDays == {On(1999, 12, 31), On(2000, 2, 29), On(2024, 1, 30), On(2024, 1, 31), On(2024, 2, 28),
           On(2024, 2, 29), On(2024, 3, 1), On(2024, 3, 30), On(2024, 3, 31), On(2024, 4, 30),
           On(2024, 5, 1), On(2025, 2, 28), On(2025, 3, 1), On(2028, 2, 29), On(2100, 2, 28),
           On(2100, 3, 1)}
MCRenewals == {Date(2024, 1, 31), Date(2024, 2, 29), Date(2024, 2, 30)}
Plan(kind, cycle, renews, amount, budget) ==
    [kind |-> kind, cycle |-> cycle, renews |-> renews, amount |-> amount, budget |-> budget]
MCInputs == {Plan("subscription", "monthly", Date(2024, 1, 31), 20, 0),
             Plan("subscription", "yearly", Date(2024, 2, 29), 0, 0),
             Plan("api", "none", NoDate, 0, 5),
             Plan("subscription", "monthly", Date(2024, 2, 30), 1, 0),
             Plan("api", "none", Date(2024, 1, 31), 0, 5),
             Plan("subscription", "monthly", NoDate, 1, 5)}

MCRates == [x \in {"in", "cached", "out"} |-> CASE x = "in" -> 3 [] x = "cached" -> 1 [] x = "out" -> 5]
CallOf(model, status, dialect, uncached, cached, out, reports) ==
    [model |-> model, status |-> status, dialect |-> dialect,
     used |-> [uncached |-> uncached, cached |-> cached, out |-> out], reports |-> reports]
MCCalls == {CallOf("m1", "Success", "uncached", 2, 1, 1, "all"),
            CallOf("m1", "Success", "total", 1, 0, 1, "all"),
            CallOf("m2", "Success", "total", 1, 2, 0, "all"),
            CallOf("m1", "Success", "total", 1, 0, 1, "output"),
            CallOf("m2", "Failed", "total", 1, 0, 0, "nothing"),
            CallOf("m1", "PolicyDenied", "total", 0, 0, 0, "nothing")}
MCUsageDays == {On(2024, 1, 31), On(2024, 2, 1), On(2024, 2, 7), On(2024, 6, 30)}

File(language, manifest, secret, bytes, todos) ==
    [kind |-> "file", skip |-> FALSE, secret |-> secret, manifest |-> manifest,
     language |-> language, bytes |-> bytes, todos |-> todos]
Folder(kind, skip) == [File("none", "none", FALSE, 0, 0) EXCEPT !.kind = kind, !.skip = skip]
MCTree == (<<"a">> :> File("Rust", "none", FALSE, 2, 2))
       @@ (<<"c">> :> File("C++", "none", FALSE, 3, 1))
       @@ (<<"e">> :> File("C#", "none", FALSE, 1, 1))
       @@ (<<"m">> :> File("none", "Cargo.toml", FALSE, 1, 0))
       @@ (<<"k">> :> File("Rust", "none", TRUE, 1, 1))
       @@ (<<"i">> :> File("Rust", "none", FALSE, 1, 1))
       @@ (<<"i", "a">> :> File("Rust", "none", FALSE, 1, 1))
       @@ (<<"l">> :> Folder("link", FALSE))
       @@ (<<"x">> :> Folder("locked", FALSE))
       @@ (<<"t">> :> Folder("dir", TRUE)) @@ (<<"t", "/", "a">> :> File("Rust", "none", FALSE, 1, 0))
       @@ (<<"d">> :> Folder("dir", FALSE)) @@ (<<"d", "/", "a">> :> File("Rust", "none", FALSE, 1, 0))
       @@ (<<"d", "/", "k">> :> File("Rust", "none", TRUE, 1, 0))
MCFolders == {{}, {<<"a">>, <<"c">>, <<"e">>, <<"m">>, <<"k">>},
              {<<"i">>, <<"i", "a">>, <<"l">>, <<"x">>, <<"m">>},
              {<<"a">>, <<"t">>, <<"t", "/", "a">>, <<"d">>, <<"d", "/", "a">>, <<"d", "/", "k">>},
              DOMAIN MCTree \ {<<"l">>, <<"x">>, <<"e">>, <<"m">>}}
MCRules == <<[pat |-> <<"i", "*">>, neg |-> FALSE], [pat |-> <<"*", "a">>, neg |-> TRUE]>>
MCCommands == [f \in {"Cargo.toml"} |-> {"build", "test"}]
(* Relative paths, and patterns as from_gitignore keeps them.              *)
MCNames    == {s \in SeqOf({"a", "b", "/"}, 4) : <<>> \notin ToSet(Split(s, "/"))}
MCPatterns == SeqOf({"a", "b", "*"}, 4) \ {<<>>}

Pc(drivers, cpu, temp, speed) ==
    [cpu |-> cpu, drivers |-> drivers, gpus |-> 1, busy |-> speed > 100, temp |-> temp, speed |-> speed]
a1 == <<"a", "1">>
a2 == <<"a", "2">>
b1 == <<"b", "1">>
MCPcs == {Pc(drivers, "old", 80, 100) : drivers \in {<<a1>>, <<a2>>, <<a1, b1>>, <<a1, a1, b1>>,
                                                    <<a1, a2>>, <<a2, a1, a2>>}}
         \cup {Pc(<<a1>>, "new", 80, 110), Pc(<<a1>>, "old", 83, 121), Pc(<<a1>>, "old", 90, 0),
               Pc(<<a1, b1>>, "old", Unmeasured, 109)}

View(services, startup, disk, network) ==
    [services |-> services, startup |-> startup, disks |-> [d \in {"C"} |-> disk], network |-> network]
Up == [a \in {"lan"} |-> TRUE]
Normal == [s \in {"print", "scan"} |-> "Running"]
MCSystems == {View(Normal, {"cloud"}, 10, Up),
              View([Normal EXCEPT !["print"] = "Stopped"], {"cloud"}, 10, Up),
              View([s \in {"print"} |-> "Running"], {"cloud"}, 11, [a \in {"lan", "wifi"} |-> TRUE]),
              View(Normal, {"cloud", "chat"}, 9, [a \in {"lan"} |-> FALSE]),
              View(Normal, {}, 8, [a \in {} |-> TRUE]),
              View(Normal, {"cloud"}, 12, Up)}

MCBuiltins == <<Claude1, Gpt, Gemini>>
MCCustoms  == <<Own>>
MCKeys     == {{}, {Claude1}, {Claude1, Gpt}, {Gpt, Gemini}}
=============================================================================
