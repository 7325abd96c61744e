----------------------------- MODULE MCStartup -----------------------------
(***************************************************************************)
(* Configurations for Startup: every graph on three entries in which each  *)
(* has up to two dependencies, repeated ones included, in both modes;      *)
(* entries that break one of the other rules; lists of conditions.         *)
(***************************************************************************)
EXTENDS Startup, TLC

MCStrings == {"", "a", "b", "c", "web", "web/0"}
MCSimple == {"a", "b", "c", "web"}
MCCopyName(n, k) == n \o "/" \o ToString(k)

Entry(n, d) ==
    [name |-> n, dependsOn |-> d, instances |-> 0, maxRetries |-> 0,
     autoRestart |-> FALSE, restartOnSuccess |-> FALSE, controllable |-> FALSE,
     critical |-> FALSE, whenAll |-> << >>, whenAny |-> << >>, bad |-> {}]

Config(m, c, r) == [mode |-> m, control |-> c, bad |-> FALSE, run |-> r]

\* Dependency lists of up to two names, a repeated one included.
Dependencies(S) == {<< >>} \cup {<<x>> : x \in S} \cup {<<x, y>> : x, y \in S}
Graphs ==
    {Config(m, FALSE, <<Entry("a", d), Entry("b", e), Entry("c", f)>>) :
        m \in {"unset", "sequential"}, d, e, f \in Dependencies({"a", "b", "c"})}

\* One entry, or a pair, that breaks a rule or only just keeps it.
Oddities ==
    {[Entry("a", << >>) EXCEPT !.instances = n] : n \in {-1, 1, 2}}
    \cup {[Entry("a", << >>) EXCEPT !.autoRestart = r, !.restartOnSuccess = s,
              !.controllable = p, !.critical = k] : r, s, p, k \in BOOLEAN}
    \cup {[Entry("a", << >>) EXCEPT !.maxRetries = -1],
          [Entry("a", << >>) EXCEPT !.bad = {"group"}],
          [Entry("a", << >>) EXCEPT !.whenAny = <<{"env"}, {"unknown"}>>],
          [Entry("a", << >>) EXCEPT !.whenAll = <<{}>>],
          Entry("", << >>), Entry("a", <<"b">>), Entry("a", <<"">>)}
Partners == {Entry("web/0", << >>), [Entry("web", << >>) EXCEPT !.instances = 2],
             Entry("a", << >>), Entry("c", <<"a", "a">>)}
Singles ==
    {Config("parallel", c, <<p>>) : c \in BOOLEAN, p \in Oddities}
    \cup {Config("unset", c, <<p, q>>) : c \in BOOLEAN, p, q \in Partners}
    \cup {Config("other", FALSE, <<Entry("a", << >>)>>), Config("unset", TRUE, << >>),
          [Config("unset", FALSE, <<Entry("a", << >>)>>) EXCEPT !.bad = TRUE]}

Lists == {<< >>, <<{"env"}>>, <<{"portOpen", "commandSucceeds"}>>,
          <<{"fileExists"}, {"commandSucceeds"}>>}
Conditional ==
    {Config("sequential", FALSE,
        <<[Entry("a", << >>) EXCEPT !.whenAll = p, !.whenAny = q], Entry("b", <<"a">>)>>) :
        p, q \in Lists}

MCConfigs == Graphs \cup Singles \cup Conditional
=============================================================================
