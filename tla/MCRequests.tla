----------------------------- MODULE MCRequests -----------------------------
(***************************************************************************)
(* Instances of Requests: accounts with a guarded balance and a version.   *)
(***************************************************************************)
EXTENDS Requests

CONSTANT Quota      \* bounds the acknowledged writes of a client

Balance == [ColumnDef("balance", "i64") EXCEPT !.nullable = FALSE, !.guarded = TRUE]
Version == [ColumnDef("version", "i64") EXCEPT !.nullable = FALSE, !.rowversion = TRUE]
NotNegative == [k |-> "cmp", col |-> "balance", op |-> "gte", value |-> I64(0)]
Accounts ==
    [TableDef(1, <<[ColumnDef("id", "i64") EXCEPT !.nullable = FALSE], Balance, Version>>, <<"id">>)
        EXCEPT !.checks = <<NotNegative>>]

Account(id, n) == <<<<"id", I64(id)>>, <<"balance", I64(n)>>>>
Opened(rows) == InsertJob(CreateTableJob(<<>>, Accounts).db, 1, rows, 0).db
TwoAccounts == Opened(<<Account(1, 1), Account(2, 0)>>)
OneAccount == Opened(<<Account(1, 0)>>)

\* Conditions and statements.
C(c) == Col(0, c)
L(n) == Lit(I64(n))
Is(c, v) == Cmp("eq", C(c), Lit(v))
Where(conds) == <<"where", Call("and", conds)>>
Of(id) == Is("id", I64(id))
Plus(n) == Op("arith", "add", <<C("balance"), L(n)>>)
Set(selector, e, id, n) == UpdateOf(1, selector, <<<<"balance", e>>>>, FALSE, <<<<"add", I64(id), n>>>>)

ReadOf(id) == SelectOf(<<"pipeline", <<Scan(1, 0), Match(Of(id))>>>>)
Deposit(id) == Set(Where(<<Of(id)>>), Plus(1), id, 1)
Withdraw(id) == Set(Where(<<Of(id), Cmp("gte", C("balance"), L(1))>>), Plus(-1), id, -1)
Transfer(a, b) ==
    TransactionOf(<<Set(Where(<<Of(a)>>), Plus(-1), a, -1), Deposit(b)>>,
                  <<<<"add", I64(a), -1>>, <<"add", I64(b), 1>>>>)

\* Read, then set what was read plus one, under a condition on the row.
RaiseIf(row, cond) == Set(Where(<<Is("id", row[1])>> \o cond), L(Num(row[2]) + 1), Num(row[1]), 1)
Versioned(row) == RaiseIf(row, <<Is("version", row[3])>>)
Unchanged(row) == RaiseIf(row, <<Is("balance", row[2])>>)
Blind(row) == RaiseIf(row, <<>>)
Unconditional(row) == [Versioned(row) EXCEPT !.unconditional = TRUE]

Unsafe == {[Deposit(1) EXCEPT !.selector = <<>>], DeleteOf(1, <<>>, <<>>),
           [Deposit(1) EXCEPT !.sets = <<<<"version", L(1)>>>>],
           [Deposit(1) EXCEPT !.sets = <<<<"balance", Lit(Text(1))>>>>],
           InsertOf(1, <<<<<<"version", I64(1)>>>>>>, <<>>), InsertOf(2, <<>>, <<>>),
           TransactionOf(<<ReadOf(1)>>, <<>>)}

\* Every form of a write; a client that has just read writes what it read.
MixedProgram(c, last, n) ==
    CASE n = Quota -> {}
      [] last.rows # <<>> -> {Versioned(last.rows[1]), Unchanged(last.rows[1]), Blind(last.rows[1]),
                              Unconditional(last.rows[1])}
      [] OTHER -> {ReadOf(1), Deposit(1), Withdraw(1), Transfer(1, 2), Transfer(2, 1)}
                  \cup (IF c = 1 /\ n = 0
                        THEN {InsertOf(1, <<Account(3, 1)>>, <<<<"put", I64(3), 1>>>>)} \cup Unsafe
                        ELSE {DeleteOf(1, Where(<<Of(3), Is("balance", I64(1))>>), <<<<"drop", I64(3)>>>>)})

\* Another table comes and goes, the accounts gain a column.
MixedDefs == {TableDef(2, <<ColumnDef("id", "i64")>>, <<"id">>)}
MixedColumns == {<<1, ColumnDef("note", "i64")>>}

\* Clients that retry until the write is applied.
RetryProgram(c, last, n) ==
    CASE n = Quota -> {}
      [] last.rows # <<>> -> IF c = 1 THEN {Versioned(last.rows[1])} ELSE {Unchanged(last.rows[1])}
      [] OTHER -> {ReadOf(1)}

None == {}
=============================================================================
