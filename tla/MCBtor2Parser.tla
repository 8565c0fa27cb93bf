--------------------------- MODULE MCBtor2Parser ---------------------------
(***************************************************************************)
(* Btor2Parser and CatBtor over small sets of statements.  A profile says  *)
(* which tags, sorts and numbers occur and at which ids, so that files     *)
(* with gaps, repeated ids, forward references and references to lines of  *)
(* the wrong kind are among the inputs; all files of a behaviour are of    *)
(* one profile.                                                            *)
(***************************************************************************)
EXTENDS CatBtor

CONSTANT Profiles   \* the names of the profiles of a run

VARIABLE profile

(* sorts: ids a sort line may have          arrays: those of array sorts   *)
(* leaves: ids of lines without arguments   nodes: ids of all others       *)
(* args, negs: ids that occur as arguments, and with a minus sign          *)
(* widths: of bit-vector sorts              tags: those next to sort       *)
(* numbers: extensions, slice bounds and values of constants               *)
Profile(p) ==
    CASE p = "links" ->
           [sorts |-> {1}, arrays |-> {}, leaves |-> {2, 4}, nodes |-> {3, 5, 6},
            args |-> {2, 3, 4}, negs |-> {2}, widths |-> {1}, numbers |-> {0},
            tags |-> {"state", "input", "init", "next", "and", "output"}]
      [] p = "bits" ->
           [sorts |-> {1, 2}, arrays |-> {}, leaves |-> {3, 4}, nodes |-> {5},
            args |-> {3, 4}, negs |-> {3}, widths |-> 0 .. 2, numbers |-> {0, 1, 4},
            tags |-> {"input", "consth", "not", "redor", "xor", "ult", "implies",
                      "concat", "uext", "slice", "ite", "eq", "bad", "justice"}]
      [] p = "memories" ->
           [sorts |-> {1, 2, 3}, arrays |-> {3}, leaves |-> {4, 5, 6}, nodes |-> {7},
            args |-> {4, 5, 6}, negs |-> {}, widths |-> {1, 2}, numbers |-> {0},
            tags |-> {"state", "read", "write"}]
      [] p = "initial" ->
           [sorts |-> {1, 2, 3}, arrays |-> {2, 3}, leaves |-> {4, 5}, nodes |-> {6},
            args |-> {4, 5}, negs |-> {4}, widths |-> {1}, numbers |-> {0},
            tags |-> {"state", "one", "ite", "write", "init", "next", "eq"}]

Stmt(id, tag, sid, args, imm) ==
    [id |-> id, tag |-> tag, kind |-> "bitvec", sid |-> sid, args |-> args,
     imm |-> imm, lex |-> "ok"]

BitvecSorts(p) == {Stmt(i, "sort", 0, <<>>, <<w>>) : i \in p.sorts, w \in p.widths}

ArraySorts(p) ==
    {[Stmt(i, "sort", 0, <<>>, <<j, k>>) EXCEPT !.kind = "array"] :
       i \in p.arrays, j, k \in p.sorts}

ArgIds(p) == p.args \cup {-i : i \in p.negs}

NumbersOf(p, tag) ==
    CASE tag \in {"constd", "consth"} \cup Extensions -> [1 .. 1 -> p.numbers]
      [] tag \in {"const", "slice"} -> [1 .. 2 -> p.numbers]
      [] OTHER -> {<<>>}

IdsOf(p, tag) == IF tag \in Constants \cup {"input", "state"} THEN p.leaves ELSE p.nodes

SidsOf(p, tag) == IF tag \in SortedTags THEN p.sorts ELSE {0}

Nodes(p) ==
    UNION {{Stmt(i, tag, sid, args, imm) :
              i \in IdsOf(p, tag), sid \in SidsOf(p, tag),
              args \in [1 .. (IF tag = "justice" THEN 2 ELSE Arity[tag]) -> ArgIds(p)],
              imm \in NumbersOf(p, tag)} : tag \in p.tags}

\* Lines that break the grammar at each place.
Broken(p) == {[Stmt(i, "input", 1, <<>>, <<>>) EXCEPT !.lex = x] :
                i \in p.nodes, x \in {"head", "body", "tail"}}

Statements(p) == BitvecSorts(p) \cup ArraySorts(p) \cup Nodes(p) \cup Broken(p)

StatementsOf == [p \in Profiles |-> Statements(Profile(p))]
MCStatement == UNION {StatementsOf[p] : p \in Profiles}

----------------------------------------------------------------------------
MCInit == Init /\ profile \in Profiles

MCNext == /\ \/ ReadLines
             \/ EndOfFile
             \/ \E s \in StatementsOf[profile] : ReadLine(s)
             \/ IterInit
             \/ IterNext
          /\ UNCHANGED profile

MCSpec == MCInit /\ [][MCNext]_<<vars, profile>>

=============================================================================
