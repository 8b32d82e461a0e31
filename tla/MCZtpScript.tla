----------------------------- MODULE MCZtpScript -----------------------------
(* Instances of ZtpScript for TLC. *)
EXTENDS ZtpScript

Vol(p) == [name |-> "v", path |-> p]
Mount(n, p) == [name |-> n, at |-> "/x", path |-> p]
Ctr(n, i, u, g, m) ==
  [name |-> n, inject |-> i, user |-> u, group |-> g, mounts |-> m]

\* Two containers, one with the credential and one with a volume; each rule of
\* the rendering broken once.
MCSwitches ==
  LET Sw(b, v, cs) == [boot |-> b, volumes |-> v, containers |-> cs]
      good == <<Ctr("a", TRUE, TRUE, TRUE, <<>>),
                Ctr("b", FALSE, FALSE, FALSE, <<Mount("v", "abs")>>)>>
  IN {Sw(b, <<Vol("abs")>>, good) : b \in {"None", "InstallOS"}}
     \cup {Sw("InstallOS", <<Vol(p)>>, <<>>) : p \in {"abs", "none"}}
     \cup {Sw("None", <<Vol(p)>>, <<Ctr("a", i, u, g, m)>>) :
             p \in {"abs", "rel", "none"}, i, u, g \in BOOLEAN,
             m \in {<<>>, <<Mount("v", "abs")>>, <<Mount("w", "abs")>>,
                    <<Mount("v", "rel")>>, <<Mount("v", "abs"), Mount("v", "abs")>>}}
=============================================================================
