---------------------------- MODULE ConfigFiles ----------------------------
(***************************************************************************)
(* The configuration of an application (core/config/loader.py, runtime.py, *)
(* _dev.py): application.yml with the file of a profile laid over it, or   *)
(* with one of its own two environments, chosen by xime.dev; the checks;   *)
(* the answers that the framework and the application get by dotted keys.  *)
(***************************************************************************)
EXTENDS Integers, Sequences, FiniteSets

CONSTANTS
  BaseFiles, ProfileFiles,  \* trees that the two files may hold; NoNode is no file
  Keys,                     \* paths of keys that are asked for
  SecretKeys                \* key names with one of _SENSITIVE_KEY_FRAGMENTS

VARIABLES
  baseFile, profileFile, profile,  \* the two files, XIME_ENV or APP_ENV
  active,     \* the configuration, or why there is none
  reply       \* the last answer: [key, kind, value]

configVars == <<baseFile, profileFile, profile, active, reply>>

-----------------------------------------------------------------------------
\* A node is a mapping or a value; null is a value.
Leaf(v) == [leaf |-> v]
Tree(f) == [tree |-> f]
NoNode == [absent |-> TRUE]
IsTree(n) == "tree" \in DOMAIN n
Has(n, k) == IsTree(n) /\ k \in DOMAIN n.tree
WithoutKeys(n, ks) == Tree([k \in DOMAIN n.tree \ ks |-> n.tree[k]])

\* RuntimeConfig.get: through mappings only.
RECURSIVE Get(_, _)
Get(n, path) ==
  IF path = <<>> THEN n
  ELSE IF Has(n, Head(path)) THEN Get(n.tree[Head(path)], Tail(path)) ELSE NoNode

\* get_bool: absent and null stand for the default; what Pydantic does not read as a
\* boolean is an error, never a guess.
Flag(n, path, default) ==
  LET v == Get(n, path)
  IN IF v \in {NoNode, Leaf("null")} THEN [ok |-> TRUE, is |-> default]
     ELSE [ok |-> v \in {Leaf("true"), Leaf("false")}, is |-> v = Leaf("true")]

\* _deep_merge: mappings are merged, everything else is replaced.
RECURSIVE DeepMerge(_, _)
DeepMerge(base, over) ==
  Tree([k \in DOMAIN base.tree \cup DOMAIN over.tree |->
          IF k \notin DOMAIN over.tree THEN base.tree[k]
          ELSE IF Has(base, k) /\ IsTree(base.tree[k]) /\ IsTree(over.tree[k])
               THEN DeepMerge(base.tree[k], over.tree[k])
               ELSE over.tree[k]])

-----------------------------------------------------------------------------
\* _load_single_file_environment
EnvironmentsOf(base) == Get(base, <<"environments">>)
Dev(base) == Flag(base, <<"xime", "dev">>, FALSE)
SelectorIsBad(base, prof) ==
  \/ prof # "none"
  \/ ~IsTree(EnvironmentsOf(base))
  \/ DOMAIN EnvironmentsOf(base).tree # {"local", "server"}
  \/ \E name \in DOMAIN EnvironmentsOf(base).tree :
       \/ ~IsTree(EnvironmentsOf(base).tree[name])
       \/ Has(EnvironmentsOf(base).tree[name], "xime")
       \/ Has(EnvironmentsOf(base).tree[name], "environments")
  \/ Get(base, <<"xime", "dev">>) = NoNode
  \/ ~Dev(base).ok
SelectedName(base) == IF Dev(base).is THEN "local" ELSE "server"
Selected(base) == EnvironmentsOf(base).tree[SelectedName(base)]
TopologyKeys == {"process", "processes"}
Common(base) ==
  WithoutKeys(base, {"environments"} \cup
                (IF \E k \in TopologyKeys : Has(Selected(base), k) THEN TopologyKeys ELSE {}))
Both(n) == \A k \in TopologyKeys : Has(n, k)

\* LoggingConfig: a log file needs logging to be enabled.
LoggingIsBad(n) ==
  \/ \E p \in {<<"logging", "enabled">>, <<"logging", "file">>} : ~Flag(n, p, TRUE).ok
  \/ ~Flag(n, <<"logging", "enabled">>, TRUE).is /\ Flag(n, <<"logging", "file">>, FALSE).is

\* YamlConfigLoader.load and RuntimeConfig.from_dict
LoadedConfig(base, over, prof) ==
  LET found == IF base = NoNode THEN Tree(<<>>) ELSE base
      merged == IF Has(found, "environments")
                THEN IF SelectorIsBad(found, prof) THEN NoNode
                     ELSE DeepMerge(Common(found), Selected(found))
                ELSE IF prof = "none" \/ over = NoNode THEN found
                     ELSE DeepMerge(found, over)
  IN IF merged = NoNode \/ (Has(found, "environments") /\ Both(merged)) THEN Leaf("refused")
     ELSE IF LoggingIsBad(merged) THEN Leaf("invalid") ELSE merged

NoReply == [key |-> <<>>, kind |-> "none", value |-> NoNode]
ConfigInit ==
  /\ baseFile \in BaseFiles /\ profileFile \in ProfileFiles /\ profile \in {"none", "prod"}
  /\ active = Leaf("unloaded") /\ reply = NoReply

Load ==
  /\ active = Leaf("unloaded")
  /\ active' = LoadedConfig(baseFile, profileFile, profile)
  /\ UNCHANGED <<baseFile, profileFile, profile, reply>>

Answer(kind, key, value) ==
  /\ IsTree(active)
  /\ reply' = [key |-> key, kind |-> kind, value |-> value]
  /\ UNCHANGED <<baseFile, profileFile, profile, active>>
AskValue(key) == Answer("value", key, Get(active, key))
AskFlag(key) ==
  LET f == Flag(active, key, FALSE)
  IN Answer("flag", key,
            IF ~f.ok THEN Leaf("raised") ELSE IF f.is THEN Leaf("true") ELSE Leaf("false"))
\* __repr__: a value whose own key sounds secret is masked; below such a key the names
\* of the values decide, whatever the comment at runtime.py:162-165 says of the leaves.
Show(key) ==
  /\ Has(Get(active, SubSeq(key, 1, Len(key) - 1)), key[Len(key)])
  /\ Answer("shown", key,
            IF key[Len(key)] \in SecretKeys THEN Leaf("***") ELSE Get(active, key))

ConfigNext ==
  \/ Load
  \/ \E key \in Keys : AskValue(key) \/ AskFlag(key) \/ Show(key)

ConfigSpec == ConfigInit /\ [][ConfigNext]_configVars

-----------------------------------------------------------------------------
ConfigTypeOK ==
  /\ baseFile \in BaseFiles /\ profileFile \in ProfileFiles /\ profile \in {"none", "prod"}
  /\ IsTree(active) \/ active \in {Leaf("unloaded"), Leaf("refused"), Leaf("invalid")}
  /\ reply.kind \in {"none", "value", "flag", "shown"}

\* What should be laid over the common keys: of one file, the environment that the
\* configuration itself tells its readers by xime.dev; else the file of the profile.
OfOneFile == IsTree(baseFile) /\ Has(baseFile, "environments")
LaidOver ==
  IF OfOneFile
  THEN Get(baseFile, <<"environments", IF Flag(active, <<"xime", "dev">>, FALSE).is
                                       THEN "local" ELSE "server">>)
  ELSE IF profile = "none" THEN NoNode ELSE profileFile

\* Leaf by leaf: what the upper file says, whether it says it of the key or of a key
\* above; a topology block of an environment takes the place of the common one, of
\* either kind; else what the common file says.
Expected(key) ==
  LET above == {Get(LaidOver, SubSeq(key, 1, n)) : n \in 1 .. Len(key) - 1}
      hidden == \/ \E node \in above : node # NoNode /\ ~IsTree(node)
                \/ /\ OfOneFile /\ key[1] \in TopologyKeys
                   /\ \E k \in TopologyKeys : Has(LaidOver, k)
                \/ OfOneFile /\ key[1] = "environments"
  IN IF Get(LaidOver, key) # NoNode THEN Get(LaidOver, key)
     ELSE IF hidden THEN NoNode ELSE Get(baseFile, key)

\* Every answer is what the files say for the environment that the process believes
\* to be in (loader.py:94-161); a flag is never on unless somebody wrote it on.
AnswersAreWritten ==
  /\ reply.kind = "value" /\ ~IsTree(reply.value) => reply.value = Expected(reply.key)
  /\ reply.kind = "flag" /\ reply.value = Leaf("true") => Expected(reply.key) = Leaf("true")

\* One file never yields two topologies, and no selector that contradicts it.
ConfigIsSound == AnswersAreWritten /\ (IsTree(active) /\ OfOneFile => ~Both(active))
=============================================================================
