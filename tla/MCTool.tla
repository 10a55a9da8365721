------------------------------- MODULE MCTool -------------------------------
(* Three pages of four cells.  Every binary over two words, one of them    *)
(* Blank, that fits them and some that do not; HEX files of a few lines;   *)
(* every backend with budgets that divide the erase time and do not, that  *)
(* are zero and that saturate; recipes with one and two tools.             *)
EXTENDS Tool, Bitwise, SequencesExt

CONSTANTS MaxLen, Letters

MCAnd(a, b) == a & b
MCCrc(s) == FoldLeft(LAMBDA acc, w : (acc * 31 + w + 7) % 127, 1, s)
MCOld == [p \in Pages |-> [c \in Cells |-> 0]]

Rec(type, addr, data) ==
    [blank |-> FALSE, colon |-> TRUE, digits |-> TRUE, zeroSum |-> TRUE,
     count |-> Len(data), type |-> type, addr |-> addr, data |-> data]
Good == Rec(0, 1, <<1>>)
MCLines ==
    {BlankLine, Rec(1, 0, <<>>), Rec(0, 0, <<1, 2>>), Rec(0, 1, <<3>>),
     Rec(0, 3, <<4, 5>>), Rec(0, 6, <<>>), Rec(5, 0, <<9>>), Rec(4, 0, <<1>>),
     [Good EXCEPT !.colon = FALSE], [Good EXCEPT !.digits = FALSE],
     [Good EXCEPT !.count = 2], [Good EXCEPT !.zeroSum = FALSE]}

Base == [cmd |-> "info", kind |-> "i2c", wired |-> TRUE, wireFlags |-> FALSE,
         poll |-> [attempts |-> 2, delay |-> 1],
         file |-> [readable |-> TRUE, hex |-> FALSE, code |-> <<1>>],
         data |-> [digits |-> TRUE, len |-> 1]]
Flashes == [Base EXCEPT !.cmd = "flash"]
Binaries == UNION {[1 .. n -> Letters] : n \in 0 .. MaxLen}
MCClis ==
    {[Base EXCEPT !.cmd = c, !.wired = w] : c \in {"info", "boot"}, w \in BOOLEAN}
    \cup {[Base EXCEPT !.cmd = "install", !.wireFlags = w] : w \in BOOLEAN}
    \cup {[Base EXCEPT !.cmd = "echo", !.data = [digits |-> d, len |-> n]] :
             d \in BOOLEAN, n \in {0, 1, 3}}
    \cup {[Flashes EXCEPT !.file.code = c] : c \in Binaries}
    \cup {[Flashes EXCEPT !.kind = k, !.poll = [attempts |-> a, delay |-> d]] :
             k \in {"i2c", "uart", "spi", "gpio"}, a \in {0, 1, 5}, d \in {0, 1, 2, 5, 6}}
    \cup {[Flashes EXCEPT !.file.hex = TRUE], [Flashes EXCEPT !.file.readable = FALSE]}

T1 == "avrdude"
T2 == "probe-rs"
Step(t, a) == [tool |-> t, args |-> a]
Recipe(pre, t, a, p) == [pre |-> pre, tool |-> t, args |-> a, portArg |-> p]
MCRecipes ==
    {Recipe(pre, T2, a, p) :
        pre \in {<<>>, <<Step(T1, {})>>, <<Step(T1, {"port"})>>, <<Step(T1, {"unclosed"})>>,
                 <<Step(T1, {}), Step(T1, {"port"})>>},
        a \in {{}, {"image", "port"}, {"other"}}, p \in BOOLEAN}
    \cup {Recipe(<<>>, NoTool, {}, FALSE), Recipe(<<Step(NoTool, {})>>, T2, {}, FALSE)}
MCOrders ==
    {[readable |-> TRUE, schema |-> TRUE, image |-> TRUE, name |-> "t",
      port |-> p, targets |-> [n \in {"t"} |-> r]] : p \in BOOLEAN, r \in MCRecipes}
    \cup {[readable |-> r, schema |-> s, image |-> i, name |-> n, port |-> FALSE,
           targets |-> [m \in {"t"} |-> Recipe(<<>>, T2, {}, FALSE)]] :
             r \in BOOLEAN, s \in BOOLEAN, i \in BOOLEAN, n \in {"t", "u"}}
=============================================================================
