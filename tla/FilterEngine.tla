---------------------------- MODULE FilterEngine ----------------------------
(***************************************************************************)
(* The filter engine (core/filter_engine.c): parsing an expression,        *)
(* evaluating it on the data of an event, and the part of it that a packet *)
(* capture hands to the kernel as a BPF filter (input/pcap_input.c).       *)
(*                                                                         *)
(* An expression is a sequence of tokens separated by white space.  A      *)
(* token is a pair of its kind and its content:                            *)
(*    <<"word", w>>  a name or keyword      <<"op", o>>   == != < <= ...   *)
(*    <<"str", s>>   a quoted string        <<"num", n>>  an integer       *)
(*    <<"real", n>>  a decimal number       <<"sym", c>>  ( ) , * |        *)
(*    <<"pat", S>>   a pattern that matches the strings in S               *)
(* and the data of an event a function from names to typed JSON values.    *)
(* The numeric value of a decimal number is an integer here.  Words of the *)
(* model are chosen so that none begins with "and", "or", "in", "contains",*)
(* "true" or "false" without being it; the code compares prefixes, which   *)
(* is modelled for "not".                                                  *)
(***************************************************************************)
EXTENDS Integers, Sequences

CONSTANTS
    DottedNames,  \* the names and strings that contain a dot
    Addresses,    \* the strings that are IP addresses
    AfterNot,     \* the words that begin with "not", and what follows it
    IntModulus    \* the number of values of an int

ASSUME FilterAssumption == IntModulus \in Nat \ {0}

Word(w) == <<"word", w>>
Sym(c) == <<"sym", c>>

Kind(ts, i) == IF i <= Len(ts) THEN ts[i][1] ELSE "end"

Is(ts, i, token) == i <= Len(ts) /\ ts[i] = token

Failure == [ok |-> FALSE]
Success(val, next) == [ok |-> TRUE, val |-> val, next |-> next]

(* What is read behind r: an error is final.                               *)
Then(r, Continue(_)) == IF r.ok THEN Continue(r) ELSE Failure

----------------------------------------------------------------------------
(* The operator of a comparison.                                           *)
OpAt(ts, i) ==
    IF Kind(ts, i) = "op" \/ Is(ts, i, Word("in")) \/ Is(ts, i, Word("contains"))
    THEN ts[i][2] ELSE "none"

(* strtol into an int.                                                     *)
ToInt(n) == ((n + IntModulus \div 2) % IntModulus) - IntModulus \div 2

(* A number is decimal if there is a dot anywhere behind it (strchr).      *)
DotFrom(ts, i) ==
    \E j \in i..Len(ts) :
        \/ ts[j][1] = "real"
        \/ ts[j][1] \in {"word", "str"} /\ ts[j][2] \in DottedNames

(* The pattern of =~ and !~, up to the next space; it may not compile.     *)
Pattern(ts, i) ==
    CASE Kind(ts, i) = "pat"  -> <<"regex", ts[i][2]>>
      [] Kind(ts, i) = "word" -> <<"regex", {ts[i][2]}>>
      [] OTHER                -> <<"noregex", {}>>

(* The value of a comparison.  What is no value is not consumed and leaves *)
(* the type of the value at its zero, JSON_OBJECT.                         *)
ValueAt(ts, i, op) ==
    CASE Kind(ts, i) = "str"  -> Success(<<"string", ts[i][2]>>, i + 1)
      [] Kind(ts, i) = "num"  ->
            Success(IF DotFrom(ts, i) THEN <<"real", ts[i][2]>>
                                      ELSE <<"integer", ToInt(ts[i][2])>>, i + 1)
      [] Kind(ts, i) = "real" -> Success(<<"real", ts[i][2]>>, i + 1)
      [] Is(ts, i, Word("true"))  -> Success(<<"boolean", TRUE>>, i + 1)
      [] Is(ts, i, Word("false")) -> Success(<<"boolean", FALSE>>, i + 1)
      [] OTHER ->
            IF op \in {"=~", "!~"}
            THEN Success(Pattern(ts, i), IF i <= Len(ts) THEN i + 1 ELSE i)
            ELSE Success(<<"object", 0>>, i)

(* A comparison: field, operator, value.                                   *)
ParseComparison(ts, i) ==
    IF Kind(ts, i) \notin {"word", "num", "real"} \/ OpAt(ts, i + 1) = "none"
    THEN Failure
    ELSE LET op == OpAt(ts, i + 1)
             v == ValueAt(ts, i + 2, op)
         IN  Success(<<"expr", [field |-> ts[i], op |-> op, value |-> v.val]>>, v.next)

(* parse_filter_expr: a bracket, a negation or a comparison.  A bracket    *)
(* holds one such thing, and need not be closed.                           *)
RECURSIVE ParseFilterExpr(_, _)
ParseFilterExpr(ts, i) ==
    LET Negated(r) == Success(<<"not", r.val>>, r.next)
        Closed(r) == IF Is(ts, r.next, Sym(")")) THEN Success(r.val, r.next + 1) ELSE r
    IN  CASE Is(ts, i, Sym("(")) -> Then(ParseFilterExpr(ts, i + 1), Closed)
          [] Is(ts, i, Word("not")) -> Then(ParseFilterExpr(ts, i + 1), Negated)
          [] Kind(ts, i) = "word" /\ ts[i][2] \in DOMAIN AfterNot ->
                Then(ParseFilterExpr([ts EXCEPT ![i] = Word(AfterNot[ts[i][2]])], i), Negated)
          [] OTHER -> ParseComparison(ts, i)

(* parse_filter_full: operands joined from left to right, "and" and "or"   *)
(* alike.  It ends at whatever is no connective, and nobody looks at the   *)
(* rest.                                                                   *)
RECURSIVE ParseChain(_, _)
ParseChain(ts, left) ==
    IF ~(Is(ts, left.next, Word("and")) \/ Is(ts, left.next, Word("or")))
    THEN left
    ELSE Then(ParseFilterExpr(ts, left.next + 1), LAMBDA right :
             ParseChain(ts, Success(<<ts[left.next][2], left.val, right.val>>, right.next)))

(* nblex_filter_new *)
FilterNew(ts) ==
    Then(ParseFilterExpr(ts, 1), LAMBDA first : ParseChain(ts, first))

----------------------------------------------------------------------------
Compare(op, a, b) ==
    CASE op = "<" -> a < b [] op = "<=" -> a <= b [] op = ">" -> a > b [] op = ">=" -> a >= b

(* evaluate_filter_expr: json_object_get takes the field as one key, dots  *)
(* and all.  There is no case for "in" and "contains".                     *)
EvaluateExpr(x, data) ==
    /\ x.field[1] = "word"
    /\ x.field[2] \in DOMAIN data
    /\ LET f == data[x.field[2]]
           v == x.value
           equal == f[1] \in {"string", "integer", "real", "boolean"} /\ f = v
       IN  CASE x.op = "==" -> equal
             [] x.op = "!=" -> ~equal
             [] x.op \in {"<", "<=", ">", ">="} ->
                   /\ f[1] \in {"integer", "real"}
                   /\ v[1] \in {"integer", "real"}
                   /\ Compare(x.op, f[2], v[2])
             [] x.op = "=~" -> f[1] = "string" /\ v[1] = "regex" /\ f[2] \in v[2]
             [] x.op = "!~" -> f[1] = "string" /\ v[1] = "regex" /\ f[2] \notin v[2]
             [] OTHER -> FALSE

(* evaluate_filter_node *)
RECURSIVE Evaluate(_, _)
Evaluate(n, data) ==
    CASE n[1] = "and"  -> Evaluate(n[2], data) /\ Evaluate(n[3], data)
      [] n[1] = "or"   -> Evaluate(n[2], data) \/ Evaluate(n[3], data)
      [] n[1] = "not"  -> ~Evaluate(n[2], data)
      [] n[1] = "expr" -> EvaluateExpr(n[2], data)

----------------------------------------------------------------------------
(* extract_bpf_from_expr: the condition on packets that a comparison is,   *)
(* if it is one the kernel can check.                                      *)
BpfOfExpr(x) ==
    IF /\ x.op = "==" /\ x.field[1] = "word"
       /\ \/ /\ x.field[2] \in {"network.dst_port", "network.src_port"}
             /\ x.value[1] \in {"integer", "real"}
          \/ /\ x.field[2] = "network.protocol"
             /\ x.value[1] = "string" /\ x.value[2] \in {"tcp", "udp", "icmp"}
          \/ /\ x.field[2] \in {"network.src_ip", "network.dst_ip"}
             /\ x.value[1] = "string"
    THEN {<<x.field[2], x.value[2]>>} ELSE {}

(* extract_bpf_recursive: the conditions, all of which must hold.          *)
RECURSIVE BpfWithAlternatives(_)
BpfWithAlternatives(n) ==
    CASE n[1] \in {"and", "or"} -> BpfWithAlternatives(n[2]) \cup BpfWithAlternatives(n[3])
      [] n[1] = "not"  -> {}
      [] n[1] = "expr" -> BpfOfExpr(n[2])
RECURSIVE FilterToBpf(_)
FilterToBpf(n) ==
    CASE n[1] = "and"  -> FilterToBpf(n[2]) \cup FilterToBpf(n[3])
      [] n[1] \in {"or", "not"} -> {}
      [] n[1] = "expr" -> BpfOfExpr(n[2])

(* What the kernel does with the conditions (external: libpcap).  A filter *)
(* that does not compile, with a port or an address that is none, is not   *)
(* installed (pcap_input_start).                                           *)
BpfAccepts(conditions, packet) ==
    LET compiles == \A c \in conditions :
            IF c[1] = "network.protocol" THEN TRUE
            ELSE IF c[1] \in {"network.dst_port", "network.src_port"} THEN c[2] \in 0..65535
            ELSE c[2] \in Addresses
    IN  compiles => \A c \in conditions : packet[c[1]] = c[2]

(* packet_handler and the dissectors: the data of the event of a packet,   *)
(* as far as addresses, ports and protocol go.                             *)
PacketData(packet) ==
    LET proto == packet["network.protocol"]
        ports == CASE proto = "tcp" -> [src |-> "tcp_src_port", dst |-> "tcp_dst_port"]
                   [] proto = "udp" -> [src |-> "udp_src_port", dst |-> "udp_dst_port"]
                   [] OTHER         -> [src |-> "none", dst |-> "none"]
        names == {"ip_src", "ip_dst", "protocol", ports.src, ports.dst} \ {"none"}
    IN  [name \in names |->
            CASE name = "ip_src"    -> <<"string", packet["network.src_ip"]>>
              [] name = "ip_dst"    -> <<"string", packet["network.dst_ip"]>>
              [] name = "protocol"  -> <<"string", proto>>
              [] name = ports.src   -> <<"integer", packet["network.src_port"]>>
              [] name = ports.dst   -> <<"integer", packet["network.dst_port"]>>]
=============================================================================
