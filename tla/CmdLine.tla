------------------------------ MODULE CmdLine ------------------------------
(***************************************************************************)
(* PikiwiDB::ParseArgs (src/pikiwidb.cc) as a pure operator over the      *)
(* command line after av[0].  An argument is abstracted to the class the   *)
(* parser tells apart: a readable path ("file"), a prefix of one of the    *)
(* options, or anything else ("val").  Values after an option are taken    *)
(* whatever they are (atoi or a string), so their contents are not kept.  *)
(***************************************************************************)
EXTENDS Naturals, Sequences, SequencesExt

Options == {"-v", "-h", "--port", "--loglevel", "--slaveof"}
Tokens == Options \cup {"file", "val"}

(* The outcome: ParseArgs returned true ("ok") or false ("usage"), or the  *)
(* process exit(0)ed in -v/-h ("exit"); whether cfgFile_ was set; whether  *)
(* some av[j] with j >= ac was read (av[ac] is NULL, atoi(NULL) crashes).  *)
Result(st, cfg, oob) == [status |-> st, cfg |-> cfg, oob |-> oob]

RECURSIVE Parse(_, _, _)

(* Fault variant of Parse: --slaveof tests i + 2 > ac.                     *)
ParseSlaveofOffByOne(a, i, cfg) ==
    IF i > Len(a) THEN Result("ok", cfg, FALSE)
    ELSE CASE ~cfg /\ a[i] = "file" -> Parse(a, i + 1, TRUE)
           [] a[i] \in {"-v", "-h"} -> Result("exit", cfg, FALSE)
           [] a[i] \in {"--port", "--loglevel"} ->
                 IF i + 1 > Len(a) THEN Result("usage", cfg, FALSE)
                 ELSE Parse(a, i + 2, cfg)
           [] a[i] = "--slaveof" ->
                 IF i + 1 > Len(a) THEN Result("usage", cfg, FALSE)
                 ELSE LET r == Parse(a, i + 3, cfg)
                      IN [r EXCEPT !.oob = @ \/ i + 2 > Len(a)]
           [] OTHER -> Result("usage", cfg, FALSE)

(* The loop of ParseArgs from 1-based position i (the code's i + 1) with   *)
(* cfgFile_ set or not: a readable path is the config file if none is set *)
(* yet; -v/-h print and exit(0); --port and --loglevel take av[++i] after  *)
(* checking ++i == ac; --slaveof checks i + 2 >= ac, then takes two; any   *)
(* other argument is an unknown option.                                    *)
Parse(a, i, cfg) ==
    IF i > Len(a) THEN Result("ok", cfg, FALSE)
    ELSE CASE ~cfg /\ a[i] = "file" -> Parse(a, i + 1, TRUE)
           [] a[i] \in {"-v", "-h"} -> Result("exit", cfg, FALSE)
           [] a[i] \in {"--port", "--loglevel"} ->
                 IF i + 1 > Len(a) THEN Result("usage", cfg, FALSE)
                 ELSE Parse(a, i + 2, cfg)
           [] a[i] = "--slaveof" ->
                 IF i + 2 > Len(a) THEN Result("usage", cfg, FALSE)
                 ELSE LET r == Parse(a, i + 3, cfg)
                      IN [r EXCEPT !.oob = @ \/ i + 2 > Len(a)]
           [] OTHER -> Result("usage", cfg, FALSE)

ParseArgs(a) == Parse(a, 1, FALSE)
-----------------------------------------------------------------------------
(***************************************************************************)
(* The reference: the forms Usage() lists, read as a grammar.  A command   *)
(* line is a concatenation of groups: one config path, --port N,          *)
(* --loglevel L, --slaveof IP PORT; -v or -h at the start of a group ends  *)
(* the program.                                                            *)
(***************************************************************************)
Groups ==
    {<<"file">>}
    \cup {<<o, v>> : o \in {"--port", "--loglevel"}, v \in Tokens}
    \cup {<<"--slaveof", v, w>> : v, w \in Tokens}

RECURSIVE WholeGroups(_, _)
(* s splits into groups, with a config path only while none is given.     *)
WholeGroups(s, cfg) ==
    \/ s = <<>>
    \/ \E n \in 1 .. 3 :
          LET g == SubSeq(s, 1, n) IN
          /\ n <= Len(s) /\ g \in Groups /\ ~(cfg /\ g = <<"file">>)
          /\ WholeGroups(SubSeq(s, n + 1, Len(s)), cfg \/ g = <<"file">>)

(* Position k starts a group: everything before it splits into groups.    *)
GroupStart(a, k) == WholeGroups(SubSeq(a, 1, k - 1), FALSE)

RefStatus(a) ==
    IF \E k \in 1 .. Len(a) : a[k] \in {"-v", "-h"} /\ GroupStart(a, k) THEN "exit"
    ELSE IF WholeGroups(a, FALSE) THEN "ok"
    ELSE "usage"

RefCfg(a) == \E k \in 1 .. Len(a) : a[k] = "file" /\ GroupStart(a, k)
=============================================================================
