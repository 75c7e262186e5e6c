---------------------------- MODULE MCCliProcess ----------------------------
(* Command lines, projects and logs for CliProcess. *)
EXTENDS CliProcess, TLC

\* Every word the parser knows, and one it does not.
CommandWords ==
    {<<w>> : w \in DOMAIN WordCommands \cup {"nonsense"}}
    \cup {<<"session", v>> : v \in DOMAIN SessionCommands}
    \cup UNION {{<<c, v>> : v \in DOMAIN CategoryUsage[c] \cup {"patch", "transfer"}} :
                   c \in DOMAIN CategoryUsage}

\* Up to four words after them, the last of which may be empty.
Arguments ==
    UNION {[1..n -> {"x"}] : n \in 0..4} \cup {[i \in 1..n |-> IF i = n THEN "" ELSE "x"] : n \in 1..3}

NoOptions == [o \in {} |-> Null]

Line(words, options, url) == [words |-> words, options |-> options, url |-> url]
Host == Url("host", "://", FALSE, FALSE)

PlainLines == {Line(w \o a, NoOptions, Host) : w \in CommandWords, a \in Arguments}

DefaultLines ==
    {Line(<<"deployment", "add", "x">> \o a, "default" :> d, Host) :
        a \in {<<>>, <<"x">>}, d \in BOOLEAN}

\* The servers and the connection settings a login may be given.
LoginLines ==
    {Line(<<w>> \o a, o, u) :
        w \in {"login", "register"}, a \in {<<>>, <<"url">>},
        o \in {NoOptions, "proxy" :> "proxy", "proxy" :> "", "noProxy" :> TRUE,
               ("proxy" :> "proxy") @@ ("noProxy" :> TRUE), "accessKey" :> "key"},
        u \in {Url("host", c, s, p) : c \in {"://", ":\\"}, s \in BOOLEAN, p \in BOOLEAN}}

Rollouts == {Plain(0), Plain(1), Percent(100), Plain(101), ZeroPadded(5), Fraction(5), Empty}

RolloutLines ==
    {Line(w, "rollout" :> r, Host) :
        w \in {<<"patch", "x", "x">>, <<"promote", "x", "x", "x">>,
               <<"release", "x", "x", "range">>, <<"release-cordova", "x", "x">>,
               <<"release-react", "x", "x">>},
        r \in Rollouts}

OtherLines ==
    {Line(<<"debug", p>>, NoOptions, Host) : p \in {"android", "ios"}}
    \cup {Line(<<w, "x", "x">>, "targetBinaryVersion" :> v, Host) :
             w \in {"patch", "release-cordova", "release-react"}, v \in VersionText \cup {""}}
    \cup {Line(<<"patch", "x", "x">>, o, Host) :
             o \in {"description" :> "", "label" :> "x", "nonsense" :> "x"}}
    \cup {Line(<<"release-react", "x", "x">>, "deploymentName" :> "", Host)}

SomeLines == PlainLines \cup DefaultLines \cup LoginLines \cup RolloutLines \cup OtherLines

File == {Missing, Malformed, Absent} \cup VersionText

SomeProjects ==
    {[platform |-> "ios", gradle |-> <<>>, files |-> <<f, g>>] : f, g \in File}
    \cup {[platform |-> "windows", gradle |-> <<>>, files |-> <<f, Missing>>] : f \in File}
    \cup {[platform |-> "android", gradle |-> <<Absent, "name">>, files |-> <<f, g>>] :
             f, g \in File}
    \cup {[platform |-> "android", gradle |-> g, files |-> <<"semver", "semver">>] :
             g \in {Missing, Malformed, <<Absent>>} \cup {<<v>> : v \in VersionText}}

SomeMachines ==
    {[adb |-> a, devices |-> d, darwin |-> m, simulators |-> s] :
        a \in BOOLEAN, d \in 0..2, m \in BOOLEAN, s \in 0..1}

\* A line of another program between two of the app, the first with a source;
\* a message with a prefix in it.
SomeLogs ==
    {<<"t">> \o Prefix \o <<"m1", Source, NL, "other", NL>> \o Prefix \o <<"m2", NL>>,
     Prefix \o <<"m1">> \o Prefix \o <<"m2", NL>>}
=============================================================================
