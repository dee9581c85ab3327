------------------------------- MODULE Printf -------------------------------
(***************************************************************************)
(* The printf functions of src/intl for systems whose own do not know the  *)
(* positions of arguments, "%2$s": a format is parsed by printf-parse.c,   *)
(* its arguments fetched by printf-args.c, and vasnprintf.c gives the      *)
(* directives one by one to snprintf or sprintf, in a result it makes      *)
(* larger as it goes.  Sizes saturate as those of xsize.h do.              *)
(*                                                                         *)
(* A format is a sequence of characters; of what a directive produces,     *)
(* only the length is looked at.                                           *)
(***************************************************************************)
EXTENDS Integers, Sequences, SequencesExt, FiniteSetsExt

CONSTANTS
  SIZE_MAX,   (* the largest size_t, which stands for all larger ones      *)
  INT_MAX,    (* the largest length a printf function can return           *)
  ArgSize,    (* sizeof (argument)                                         *)
  DirSize,    (* sizeof (DIRECTIVE)                                        *)
  MB_CUR_MAX, (* the most bytes of a character                             *)
  Memory,     (* bound: the largest size malloc can serve                  *)
  Formats,    (* that are parsed                                           *)
  Prints,     (* calls of the printf functions                             *)
  Rooms       (* directives that are given to sprintf                      *)

(* External: what these are.                                                *)
Limits ==
  /\ SIZE_MAX \in Nat /\ INT_MAX \in Nat
  /\ ArgSize \in Nat \ {0} /\ DirSize \in Nat \ {0} /\ MB_CUR_MAX \in Nat \ {0}
  /\ Memory \in Nat /\ Memory < SIZE_MAX
-----------------------------------------------------------------------------
(* xsize.h                                                                  *)
xsum(a, b)   == IF a + b <= SIZE_MAX THEN a + b ELSE SIZE_MAX
xtimes(n, s) == IF n <= SIZE_MAX \div s THEN n * s ELSE SIZE_MAX
xmax(a, b)   == IF a >= b THEN a ELSE b

size_overflow_p(size) == size = SIZE_MAX

Allocates(size) == ~ size_overflow_p(size) /\ size <= Memory
-----------------------------------------------------------------------------
(***************************************************************************)
(* printf-parse.c.                                                         *)
(***************************************************************************)
ARG_NONE == -1
Bad      == -2         (* an argument 0, or one too large                  *)
NUL      == "NUL"

DigitSeq  == <<"0", "1", "2", "3", "4", "5", "6", "7", "8", "9">>
Digits    == ToSet(DigitSeq)
FlagChars == {"'", "-", "+", " ", "#", "0"}
SizeChars == {"h", "l", "L", "j", "z", "Z", "t"}

At(format, i) == IF i <= Len(format) THEN format[i] ELSE NUL

(* The index behind the characters of a set.                                *)
Span(format, i, chars) ==
  Min({j \in i .. Len(format) : format[j] \notin chars} \cup {xmax(i, Len(format) + 1)})

Value(digit) == (CHOOSE d \in 1 .. 10 : DigitSeq[d] = digit) - 1

Number(digits) ==
  LET number[k \in 0 .. Len(digits)] ==
        IF k = 0 THEN 0 ELSE xsum(xtimes(number[k - 1], 10), Value(digits[k]))
  IN number[Len(digits)]

(* "12$" is the position 11.                                                *)
Positional(format, i) ==
  LET j == Span(format, i, Digits)
      n == Number(SubSeq(format, i, j - 1))
  IN IF j > i /\ At(format, j) = "$"
       THEN [index |-> IF n = 0 \/ size_overflow_p(n) THEN Bad ELSE n - 1, next |-> j + 1]
       ELSE [index |-> ARG_NONE, next |-> i]

(* A width, or a precision behind its point: a star that takes an argument, *)
(* or digits, whose number vasnprintf.c reads.                              *)
Field(format, i, arg_posn) ==
  LET p == Positional(format, i + 1)
      j == Span(format, i, Digits)
  IN IF At(format, i) # "*"
       THEN [index |-> ARG_NONE, posn |-> arg_posn, length |-> j - i, next |-> j,
             number |-> Number(SubSeq(format, i, j - 1))]
     ELSE IF p.index = ARG_NONE
       THEN [index |-> arg_posn, posn |-> arg_posn + 1, length |-> 1, next |-> p.next, number |-> 0]
       ELSE [index |-> p.index, posn |-> arg_posn, length |-> 1, next |-> p.next, number |-> 0]

(* The sizes before a conversion, on a system where long, size_t, ptrdiff_t *)
(* and intmax_t are the same.                                               *)
Sizes(chars) ==
  LET Count(set) == Len(SelectSeq(chars, LAMBDA c : c \in set))
  IN [half |-> Count({"h"}), longs |-> Count({"l", "j", "z", "Z", "t"}), large |-> "L" \in ToSet(chars)]

IntegerType(sizes) ==
  IF sizes.longs >= 2 \/ sizes.large THEN "long long"
  ELSE IF sizes.longs = 1 THEN "long"
  ELSE IF sizes.half >= 2 THEN "char"
  ELSE IF sizes.half = 1 THEN "short" ELSE "int"

Type(c, sizes) ==
  CASE c \in {"d", "i"} -> <<"signed", IntegerType(sizes)>>
    [] c \in {"o", "u", "x", "X"} -> <<"unsigned", IntegerType(sizes)>>
    [] c \in {"f", "F", "e", "E", "g", "G", "a", "A"} ->
         IF sizes.longs >= 2 \/ sizes.large THEN <<"long double">> ELSE <<"double">>
    [] c = "c" /\ sizes.longs = 0 -> <<"char">>
    [] c = "C" \/ (c = "c" /\ sizes.longs > 0) -> <<"wide char">>
    [] c = "s" /\ sizes.longs = 0 -> <<"string">>
    [] c = "S" \/ (c = "s" /\ sizes.longs > 0) -> <<"wide string">>
    [] c = "p" -> <<"pointer">>
    [] c = "n" -> <<"count", IntegerType(sizes)>>
    [] c = "%" -> <<>>
    [] OTHER -> <<"unknown">>

TYPE_NONE == <<>>
TYPE_INT  == <<"signed", "int">>

ParseError == [failed |-> TRUE]

(* REGISTER_ARG: an argument keeps its first type; another is an error.     *)
RegisterArg(parse, n, type) ==
  LET a_allocated == IF n < parse.a_allocated THEN parse.a_allocated
                     ELSE xmax(xtimes(parse.a_allocated, 2), xsum(n, 1))
      arg == [i \in 1 .. xmax(Len(parse.arg), n + 1) |->
                IF i <= Len(parse.arg) THEN parse.arg[i] ELSE TYPE_NONE]
  IN IF parse.failed \/ n = ARG_NONE THEN parse
     ELSE IF n = Bad \/ ~ Allocates(xtimes(a_allocated, ArgSize)) THEN ParseError
     ELSE IF arg[n + 1] \notin {TYPE_NONE, type} THEN ParseError
     ELSE [parse EXCEPT !.arg = [arg EXCEPT ![n + 1] = type], !.a_allocated = a_allocated]

RegisterArgs(parse, dp) ==
  RegisterArg(RegisterArg(RegisterArg(parse, dp.width_arg_index, TYPE_INT),
                          dp.precision_arg_index, TYPE_INT),
              dp.arg_index, dp.type)

(* The directive whose % is at index start, read from left to right.        *)
FreshDirective(start, arg_posn) ==
  [dir_start |-> start, dir_end |-> start + 1, flags |-> {}, conversion |-> NUL,
   width_length |-> 0, width_arg_index |-> ARG_NONE, width |-> 0,
   precision_length |-> 0, precision_arg_index |-> ARG_NONE, precision |-> 0,
   arg_index |-> ARG_NONE, arg_posn |-> arg_posn, sizes |-> <<>>, type |-> TYPE_NONE,
   bad |-> FALSE]

ReadPosition(format, dp) ==
  LET p == Positional(format, dp.dir_end)
  IN [dp EXCEPT !.arg_index = p.index, !.bad = p.index = Bad, !.dir_end = p.next]

ReadFlags(format, dp) ==
  LET end == Span(format, dp.dir_end, FlagChars)
  IN [dp EXCEPT !.flags = ToSet(SubSeq(format, dp.dir_end, end - 1)), !.dir_end = end]

WithWidth(dp, f) ==
  [dp EXCEPT !.width_length = f.length, !.width_arg_index = f.index,
             !.width = f.number, !.arg_posn = f.posn, !.dir_end = f.next]

ReadWidth(format, dp) == WithWidth(dp, Field(format, dp.dir_end, dp.arg_posn))

WithPrecision(dp, f) ==
  [dp EXCEPT !.precision_length = f.length + 1, !.precision_arg_index = f.index,
             !.precision = f.number, !.arg_posn = f.posn, !.dir_end = f.next]

ReadPrecision(format, dp) ==
  IF At(format, dp.dir_end) # "." THEN dp
  ELSE WithPrecision(dp, Field(format, dp.dir_end + 1, dp.arg_posn))

ReadSizes(format, dp) ==
  LET end == Span(format, dp.dir_end, SizeChars)
  IN [dp EXCEPT !.sizes = Sizes(SubSeq(format, dp.dir_end, end - 1)), !.dir_end = end]

ReadConversion(format, dp) ==
  LET c == At(format, dp.dir_end)
  IN [dp EXCEPT !.conversion = IF c = "C" THEN "c" ELSE IF c = "S" THEN "s" ELSE c,
                !.type = Type(c, dp.sizes), !.dir_end = @ + 1]

(* Without a position it takes the next argument, "%%" takes none.          *)
TakeArgument(dp) ==
  IF dp.type = TYPE_NONE THEN [dp EXCEPT !.arg_index = ARG_NONE]
  ELSE IF dp.arg_index = ARG_NONE THEN [dp EXCEPT !.arg_index = dp.arg_posn, !.arg_posn = @ + 1]
  ELSE dp

Directive(format, start, arg_posn) ==
  TakeArgument(ReadConversion(format, ReadSizes(format, ReadPrecision(format,
    ReadWidth(format, ReadFlags(format, ReadPosition(format,
      FreshDirective(start, arg_posn))))))))

NextPercent(format, i) == Span(format, i, ToSet(format) \ {"%"})

(* There is always room for one directive more.                             *)
AddDirective(parse, dp) ==
  LET d_allocated == IF Len(parse.dir) + 1 < parse.d_allocated THEN parse.d_allocated
                     ELSE xtimes(parse.d_allocated, 2)
  IN IF dp.bad \/ dp.type = <<"unknown">> \/ parse.failed THEN ParseError
     ELSE IF ~ Allocates(xtimes(d_allocated, DirSize)) THEN ParseError
     ELSE [parse EXCEPT !.dir = Append(@, dp), !.d_allocated = d_allocated,
                        !.end = dp.dir_end, !.arg_posn = dp.arg_posn]

(* The next directive of the format, with its arguments, if there is one.   *)
Parsed(format, parse) ==
  LET dp == Directive(format, NextPercent(format, parse.end), parse.arg_posn)
  IN IF parse.failed \/ NextPercent(format, parse.end) > Len(format) THEN parse
     ELSE AddDirective(RegisterArgs(parse, dp), dp)

Unparsed ==
  IF ~ Allocates(DirSize) THEN ParseError
  ELSE [failed |-> FALSE, dir |-> <<>>, d_allocated |-> 1, arg |-> <<>>, a_allocated |-> 0,
        end |-> 1, arg_posn |-> 0]

printf_parse(format) ==
  LET parse[k \in 0 .. Len(format)] ==
        IF k = 0 THEN Unparsed ELSE Parsed(format, parse[k - 1])
  IN parse[Len(format)]

(* printf_fetchargs: an argument without a type cannot be skipped.          *)
printf_fetchargs(parse) == TYPE_NONE \notin ToSet(parse.arg)
-----------------------------------------------------------------------------
(***************************************************************************)
(* vasnprintf.c: the directive as it is given to snprintf, in buf.         *)
(***************************************************************************)
max_width_length(dirs) == Max({dirs[i].width_length : i \in DOMAIN dirs} \cup {0})

max_precision_length(dirs) == Max({dirs[i].precision_length : i \in DOMAIN dirs} \cup {0})

buf_neededlength(dirs) ==
  xsum(xsum(xsum(7, max_width_length(dirs)), max_precision_length(dirs)), 6)

(* %, each flag once, the fields, the sizes, the conversion, %n and NUL.    *)
SizeLength(type) ==
  CASE type[Len(type)] = "long long" -> 2
    [] type[Len(type)] \in {"long", "wide char", "wide string", "long double"} -> 1
    [] OTHER -> 0

BufLength(dp) ==
  1 + Cardinality(dp.flags) + dp.width_length + dp.precision_length + SizeLength(dp.type) + 4
-----------------------------------------------------------------------------
(***************************************************************************)
(* The arguments.  For each, its value, of which only the int of a star    *)
(* and the number of characters of a string are looked at, and the length  *)
(* of what its directive makes of it, Fails for a conversion that cannot   *)
(* be done.                                                                *)
(***************************************************************************)
Fails == -1

Produces(dp, args) == args[dp.arg_index + 1].length

IsConversion(dp) == dp.conversion \notin {"%", "n"}

StarOf(index, args) == args[index + 1].value

Width(dp, args) ==
  LET arg == StarOf(dp.width_arg_index, args)
  IN IF dp.width_arg_index = ARG_NONE THEN dp.width ELSE IF arg < 0 THEN -arg ELSE arg

(* No precision, and a star whose argument is negative, which C takes for   *)
(* none and vasnprintf.c for 0.                                             *)
NoPrecision == -1
Negative    == -2

Precision(dp, args) ==
  LET arg == StarOf(dp.precision_arg_index, args)
  IN IF dp.precision_length = 0 THEN NoPrecision
     ELSE IF dp.precision_arg_index = ARG_NONE THEN dp.precision
     ELSE IF arg < 0 THEN Negative ELSE arg

Assumed(precision) ==
  CASE precision = NoPrecision -> 6 [] precision = Negative -> 0 [] OTHER -> precision

(* The bytes of a character or a string.                                    *)
Chars(dp, args) ==
  CASE dp.type = <<"char">>        -> 1
    [] dp.type = <<"wide char">>   -> MB_CUR_MAX
    [] dp.type = <<"string">>      -> args[dp.arg_index + 1].value
    [] dp.type = <<"wide string">> -> args[dp.arg_index + 1].value * MB_CUR_MAX
    [] OTHER                       -> 0
-----------------------------------------------------------------------------
(***************************************************************************)
(* tmp_length: the room for one directive under sprintf.                   *)
(***************************************************************************)
Bits(type) == IF type[Len(type)] \in {"long", "long long"} THEN 64 ELSE 32

MAX_EXP(type) == IF type = <<"long double">> THEN 16384 ELSE 1024

(* The binary digits times the logarithm of 2.                              *)
DecimalEstimate(type) == (Bits(type) * 301030) \div 1000000 + 1
OctalEstimate(type)   == (Bits(type) * 333334) \div 1000000 + 1
HexEstimate(type)     == (Bits(type) * 250000) \div 1000000 + 1
FloatEstimate(type)   == (MAX_EXP(type) * 60206) \div 100000 + 1

(* Not saturated: neither size can be allocated where they would differ.    *)
tmp_length(c, type, width, precision, chars) ==
  LET needed ==
        CASE c \in {"d", "i", "u"} -> 2 * xmax(DecimalEstimate(type), precision) + 1
          [] c = "o" -> xmax(OctalEstimate(type), precision) + 1
          [] c \in {"x", "X"} -> xmax(HexEstimate(type), precision) + 2
          [] c \in {"f", "F"} -> FloatEstimate(type) + 10 + precision
          [] c \in {"e", "E", "g", "G", "a", "A"} -> 12 + precision
          [] c \in {"c", "s"} -> chars
          [] c = "p" -> 64 \div 4 + 1 + 2
  IN xmax(needed, width) + 1

TmpLength(dp, args) ==
  tmp_length(dp.conversion, dp.type, Width(dp, args), Assumed(Precision(dp, args)), Chars(dp, args))

(* A small tmp is on the stack.                                             *)
TmpbufSize == 700

HasTmp(length) == length <= TmpbufSize \/ Allocates(length)
-----------------------------------------------------------------------------
(***************************************************************************)
(* The result: nothing yet, the caller's buffer, or memory of its own.     *)
(***************************************************************************)
Failure(errno) == [errno |-> errno, length |-> 0, allocated |-> 0, where |-> "NULL"]

Failed(r) == r.errno # "none"

(* Deliberately wrong: the result at most doubles.                          *)
ensure_doubles(r, needed) ==
  LET allocated == IF r.allocated > 0 THEN xtimes(r.allocated, 2) ELSE 12
  IN IF Failed(r) \/ needed <= r.allocated THEN r
     ELSE IF Allocates(allocated) THEN [r EXCEPT !.allocated = allocated, !.where = "own"]
     ELSE Failure("ENOMEM")

ENSURE_ALLOCATION(r, needed) ==
  LET allocated == xmax(IF r.allocated > 0 THEN xtimes(r.allocated, 2) ELSE 12, needed)
  IN IF Failed(r) \/ needed <= r.allocated THEN r
     ELSE IF Allocates(allocated) THEN [r EXCEPT !.allocated = allocated, !.where = "own"]
     ELSE Failure("ENOMEM")

(* A text of n characters is appended.                                      *)
AppendText(r, n) ==
  LET e == ENSURE_ALLOCATION(r, xsum(r.length, n))
  IN IF Failed(e) THEN e ELSE [e EXCEPT !.length = xsum(r.length, n)]

(* External: what snprintf says of a directive that produces n characters,  *)
(* or fails (-1), given room for maxlen: by %n, and by its return value.    *)
(* One that is not of C99 may not know %n, and may say -1 for too little.   *)
Systems == {"C99", "no %n", "HP-UX", "sprintf only"}

snprintf(system, n, maxlen, percent_n) ==
  [count    |-> IF n >= 0 /\ percent_n /\ system = "C99" THEN n ELSE -1,
   retcount |-> IF system = "HP-UX" /\ n >= maxlen THEN -1 ELSE n]

(* One call of snprintf for a directive, and what its answer leads to.      *)
Attempt(system, n, try) ==
  LET r      == try.result
      maxlen == r.allocated - r.length
      said   == snprintf(system, n, maxlen, try.percent_n)
      count  == IF said.count >= 0 THEN xmax(said.count, said.retcount) ELSE said.retcount
      Again(needed) == [try EXCEPT !.result = ENSURE_ALLOCATION(r, needed)]
  IN IF try.over \/ Failed(r) THEN try
     ELSE IF said.count < 0 /\ try.percent_n THEN [try EXCEPT !.percent_n = FALSE]
     ELSE IF count < 0 THEN Again(xsum(xtimes(r.allocated, 2), 12))
     ELSE IF count >= maxlen THEN Again(xmax(xsum(r.length, count), xtimes(r.allocated, 2)))
     ELSE [try EXCEPT !.result.length = @ + count, !.over = TRUE]

(* One directive under snprintf: again, until it fits or memory is short.   *)
(* The result grows with every attempt but two.                             *)
Execute(r, system, n) ==
  LET try[k \in 0 .. Memory + 2] ==
        IF k = 0 THEN [result |-> r, percent_n |-> TRUE, over |-> FALSE]
        ELSE Attempt(system, n, try[k - 1])
      Ended(k) == try[k].over \/ Failed(try[k].result)
  IN try[CHOOSE k \in 0 .. Memory + 2 : Ended(k)].result

(* One directive under sprintf, into tmp.  What has overflowed tmp ends the  *)
(* program, if it comes so far.                                             *)
ExecuteSprintf(r, tmp, n) ==
  LET room == ENSURE_ALLOCATION(r, xmax(xsum(r.length, n), xtimes(r.allocated, 2)))
      e    == IF n >= r.allocated - r.length THEN room ELSE r
  IN IF Failed(r) THEN r
     ELSE IF ~ HasTmp(tmp) THEN Failure("ENOMEM")
     ELSE IF n < 0 THEN Failure("EINVAL")
     ELSE IF n >= tmp THEN Failure("abort")
     ELSE IF Failed(e) THEN e ELSE [e EXCEPT !.length = @ + n]

ExecuteDirective(r, dp, system, args) ==
  LET n == Produces(dp, args)
  IN CASE dp.conversion = "%" -> AppendText(r, 1)
       [] dp.conversion = "n" -> r
       [] OTHER -> IF system = "sprintf only" THEN ExecuteSprintf(r, TmpLength(dp, args), n)
                   ELSE Execute(ENSURE_ALLOCATION(r, xsum(r.length, 1)), system, n)

(* The text before a directive, then the directive.                         *)
Before(dirs, i) == dirs[i].dir_start - (IF i = 1 THEN 1 ELSE dirs[i - 1].dir_end)

ExecuteAll(dirs, system, args, start) ==
  LET Texted(r, n) == IF n > 0 THEN AppendText(r, n) ELSE r
      result[k \in 0 .. Len(dirs)] ==
        IF k = 0 THEN start
        ELSE ExecuteDirective(Texted(result[k - 1], Before(dirs, k)), dirs[k], system, args)
  IN result[Len(dirs)]

Rest(format, dirs) == Len(format) - (IF dirs = <<>> THEN 0 ELSE dirs[Len(dirs)].dir_end - 1)

Start(where, allocated) ==
  [errno |-> "none", length |-> 0, allocated |-> allocated, where |-> where]

(* Room for the final NUL.                                                  *)
Terminated(r) == ENSURE_ALLOCATION(r, xsum(r.length, 1))

Printed(start, format, parse, system, args) ==
  IF parse.failed THEN Failure("EINVAL")
  ELSE IF ~ printf_fetchargs(parse) THEN Failure("EINVAL")
  ELSE IF ~ Allocates(buf_neededlength(parse.dir)) THEN Failure("ENOMEM")
  ELSE Terminated(AppendText(ExecuteAll(parse.dir, system, args, start),
                             Rest(format, parse.dir)))

vasnprintf(start, format, system, args) ==
  Printed(start, format, printf_parse(format), system, args)
-----------------------------------------------------------------------------
(***************************************************************************)
(* printf.c: what the callers make of the result.                          *)
(***************************************************************************)
(* A format without positions is the system's own affair.                   *)
HasPositions(format) == "$" \in ToSet(format)

Returned(length) == IF length > INT_MAX THEN -1 ELSE length

(* vfprintf, of which the stream may take all or less.                      *)
Written(r, stream_takes) ==
  LET written == IF stream_takes < r.length THEN stream_takes ELSE r.length
  IN [returns |-> IF Failed(r) \/ written < r.length THEN -1 ELSE Returned(r.length),
      filled  |-> IF Failed(r) THEN 0 ELSE written, copies_null |-> FALSE]

(* vsprintf must have used the caller's buffer.                             *)
Unbounded(r) ==
  [returns |-> IF r.where = "resultbuf" THEN Returned(r.length) ELSE -1,
   filled  |-> IF r.where = "resultbuf" THEN r.length ELSE 0, copies_null |-> FALSE]

(* vsnprintf copies what fits, also from the NULL of a failure, after which *)
(* length is still the size of the buffer.                                  *)
Pruned(r, maxlength) ==
  LET length == IF Failed(r) THEN maxlength ELSE r.length
      pruned_length == IF length < maxlength THEN length ELSE maxlength - 1
  IN [returns |-> Returned(length),
      filled  |-> IF r.where = "resultbuf" THEN r.length
                  ELSE IF maxlength > 0 THEN pruned_length ELSE 0,
      copies_null |-> Failed(r) /\ pruned_length > 0]

Allocated(r) ==
  [returns |-> IF Failed(r) THEN -1 ELSE Returned(r.length),
   filled  |-> IF Failed(r) \/ r.length > INT_MAX THEN 0 ELSE r.length,
   copies_null |-> FALSE]

(* The buffer each gives vasnprintf, and what it makes of the result.        *)
Buffer(function, maxlength) ==
  CASE function \in {"vfprintf", "vasprintf"} -> Start("NULL", 0)
    [] function = "vsprintf"  -> Start("resultbuf", SIZE_MAX \div 4)
    [] function = "vsnprintf" -> Start("resultbuf", maxlength)

Outcome(function, r, maxlength, stream_takes) ==
  CASE function = "vfprintf"  -> Written(r, stream_takes)
    [] function = "vsprintf"  -> Unbounded(r)
    [] function = "vsnprintf" -> Pruned(r, maxlength)
    [] function = "vasprintf" -> Allocated(r)
-----------------------------------------------------------------------------
(***************************************************************************)
(* What is promised.                                                       *)
(***************************************************************************)
(* The length of what a directive makes; none if its conversion fails.      *)
Makes(dp, args) ==
  IF IsConversion(dp) THEN xmax(Produces(dp, args), 0)
  ELSE IF dp.conversion = "%" THEN 1 ELSE 0

(* The length a whole text has, counted without a buffer: that of the       *)
(* format, with the text of each directive in its place.                    *)
Total(format, parse, args) ==
  LET total[k \in 0 .. Len(parse.dir)] ==
        IF k = 0 THEN Len(format)
        ELSE total[k - 1] + Makes(parse.dir[k], args)
                          - (parse.dir[k].dir_end - parse.dir[k].dir_start)
  IN IF parse.failed THEN 0 ELSE total[Len(parse.dir)]

(* The buffer for a directive, where its size can be said, holds every      *)
(* directive of a format, and the arguments have been fetched with the      *)
(* types the directives use them with, which vasnprintf.c tests with an     *)
(* abort.                                                                   *)
FitsAndAgrees(parse) ==
  LET IsOf(n, type) == n = ARG_NONE \/ parse.arg[n + 1] = type
  IN ~ parse.failed =>
       \A dp \in ToSet(parse.dir) :
         /\ IsConversion(dp) /\ ~ size_overflow_p(buf_neededlength(parse.dir))
              => BufLength(dp) <= buf_neededlength(parse.dir)
         /\ IsOf(dp.width_arg_index, TYPE_INT) /\ IsOf(dp.precision_arg_index, TYPE_INT)
         /\ dp.conversion # "%" => IsOf(dp.arg_index, dp.type)

DirectivesFit(format) == FitsAndAgrees(printf_parse(format))

(* The text arrives whole with room for its NUL, in the caller's buffer if  *)
(* it fits there.                                                           *)
Arrives(r, total, start) ==
  /\ ~ Failed(r) /\ r.length = total /\ total < r.allocated
  /\ r.where = "resultbuf" <=> start.where = "resultbuf" /\ total < start.allocated
  /\ r.where = "resultbuf" => r.allocated = start.allocated

Scarce(total, parse) ==
  xsum(xtimes(total + 1, 4), 24) > Memory \/ buf_neededlength(parse.dir) > Memory

(* What there is against a directive, however short the text before it.  A  *)
(* conversion that fails is taken under snprintf for one that needs more    *)
(* room, until there is none.                                               *)
Fault(dp, system, args) ==
  IF ~ IsConversion(dp) THEN "none"
  ELSE IF system # "sprintf only" THEN IF Produces(dp, args) = Fails THEN "ENOMEM" ELSE "none"
  ELSE IF ~ HasTmp(TmpLength(dp, args)) THEN "ENOMEM"
  ELSE IF Produces(dp, args) = Fails THEN "EINVAL"
  ELSE IF Produces(dp, args) >= TmpLength(dp, args) THEN "abort" ELSE "none"

Faults(parse, system, args) == {Fault(dp, system, args) : dp \in ToSet(parse.dir)} \ {"none"}

(* %a without a precision, %e and %g as well where it is a negative star,   *)
(* and %'g of many digits.                                                  *)
Misjudged(c, group, precision) ==
  \/ c \in {"a", "A"} /\ precision = NoPrecision
  \/ c \in {"e", "E", "g", "G", "a", "A"} /\ precision = Negative
  \/ c \in {"g", "G"} /\ group /\ Assumed(precision) > 36

AbortsRightly(dp, system, args) ==
  Fault(dp, system, args) = "abort" =>
    Misjudged(dp.conversion, "'" \in dp.flags, Precision(dp, args))

(* The text arrives; or it is EINVAL for a bad format, for one for whose    *)
(* directives and arguments there is no memory, and for one that leaves out *)
(* an argument; ENOMEM when memory for some times the text up to there, or  *)
(* for buf, is short; or what there is against a directive, which is an     *)
(* abort only for those whose room is misjudged.                            *)
Rightly(r, parse, total, start, system, args) ==
  IF parse.failed \/ ~ printf_fetchargs(parse) THEN r.errno = "EINVAL"
  ELSE /\ \/ r.errno = "ENOMEM" /\ Scarce(total, parse)
          \/ r.errno \in Faults(parse, system, args)
          \/ Faults(parse, system, args) = {} /\ Arrives(r, total, start)
       /\ \A dp \in ToSet(parse.dir) : AbortsRightly(dp, system, args)

(* What C says of snprintf: the length of the text, of which the buffer     *)
(* holds what leaves room for a NUL.  After a failure, which nothing tests, *)
(* the code copies from NULL, unless the buffer has no room to copy into.   *)
PrunedAsC(s, failed, total, maxlength) ==
  IF failed THEN s.copies_null <=> maxlength > 1
  ELSE /\ s.returns = Returned(total) /\ ~ s.copies_null
       /\ s.filled = (IF maxlength = 0 THEN 0 ELSE IF total < maxlength THEN total ELSE maxlength - 1)

(* The other functions return the length of what they have put out, or -1   *)
(* after a failure, or when the text is longer than an int can say.         *)
OutAsC(s, failed, total, takes) ==
  /\ s.returns # -1 => ~ failed /\ s.returns = total /\ s.filled = total
  /\ s.returns = -1 => failed \/ total > INT_MAX \/ total > takes
  /\ ~ s.copies_null

AnswersAsC(function, s, failed, total, maxlength, stream_takes) ==
  IF function = "vsnprintf" THEN PrunedAsC(s, failed, total, maxlength)
  ELSE OutAsC(s, failed, total, CASE function = "vfprintf"  -> stream_takes
                                  [] function = "vsprintf"  -> SIZE_MAX \div 4 - 1
                                  [] function = "vasprintf" -> SIZE_MAX)

(* Who is aborted is not answered.                                          *)
BothAsC(r, parse, total, function, maxlength, stream_takes, system, args) ==
  /\ Rightly(r, parse, total, Buffer(function, maxlength), system, args)
  /\ r.errno # "abort" =>
     AnswersAsC(function, Outcome(function, r, maxlength, stream_takes), Failed(r), total,
                maxlength, stream_takes)

(* External: the longest text C may make of a directive, grouped or not, on *)
(* a machine with 64 bits and IEEE numbers.                                 *)
DecimalDigits(type) == IF Bits(type) = 64 THEN 20 ELSE 10
OctalDigits(type)   == IF Bits(type) = 64 THEN 22 ELSE 11
FloatDigits(type)   == IF type = <<"long double">> THEN 4933 ELSE 309

Grouped(digits, group) == digits + IF group THEN (digits - 1) \div 3 ELSE 0

Longest(c, type, group, width, precision, chars) ==
  LET none == precision \in {NoPrecision, Negative}
      p == IF none THEN 6 ELSE precision
      long_double == type = <<"long double">>
      text ==
        CASE c \in {"d", "i", "u"} -> Grouped(xmax(DecimalDigits(type), precision), group) + 1
          [] c = "o" -> xmax(OctalDigits(type), precision) + 1
          [] c \in {"x", "X"} -> xmax(Bits(type) \div 4, precision) + 2
          [] c \in {"f", "F"} -> Grouped(FloatDigits(type), group) + 2 + p
          [] c \in {"e", "E"} -> 3 + p + (IF long_double THEN 6 ELSE 5)
          [] c \in {"g", "G"} -> xmax(Grouped(xmax(p, 1), group) + 1, xmax(p, 1) + 7)
          [] c \in {"a", "A"} ->
               5 + (IF none THEN (IF long_double THEN 15 ELSE 13) ELSE precision)
               + (IF long_double THEN 7 ELSE 6)
          [] c \in {"c", "s"} -> chars
          [] c = "p" -> 18
  IN xmax(text, width)

(* The room for a directive under sprintf is enough, but where it is        *)
(* misjudged.                                                               *)
HasRoom(room, c, type, group, width, precision, chars) ==
  LET longest == Longest(c, type, group, width, precision, chars)
  IN longest >= room <=> longest > width /\ Misjudged(c, group, precision)
-----------------------------------------------------------------------------
(***************************************************************************)
(* One call: a format is parsed, a text printed, or room for a directive   *)
(* made.                                                                   *)
(***************************************************************************)
SprintfConversions ==
  {"d", "i", "u", "o", "x", "X", "f", "F", "e", "E", "g", "G", "a", "A", "c", "s", "p"}

PrintFunctions == {"vfprintf", "vsprintf", "vsnprintf", "vasprintf"}

Lengths == Nat \cup {Fails}

(* External: a conversion makes no less than its width and no more than C   *)
(* may make of it, or fails.                                                *)
MakesAsC(dp, args) ==
  /\ Chars(dp, args) \in Nat
  /\ \/ Produces(dp, args) = Fails
     \/ Produces(dp, args) \in
          Width(dp, args) .. Longest(dp.conversion, dp.type, "'" \in dp.flags, Width(dp, args),
                                     Precision(dp, args), Chars(dp, args))

AreArguments(args, parse) ==
  /\ \A i \in 1 .. Len(parse.arg) : args[i].length \in Lengths /\ args[i].value \in Int
  /\ \A dp \in ToSet(parse.dir) : IsConversion(dp) => MakesAsC(dp, args)

IsPrint(p) ==
  /\ p.format \in Seq(STRING) /\ p.system \in Systems /\ p.function \in PrintFunctions
  /\ p.maxlength \in Nat /\ p.maxlength < SIZE_MAX /\ p.takes \in Nat
  /\ LET parse == printf_parse(p.format)
     IN ~ parse.failed => AreArguments(p.args, parse)

IsRoom(p) ==
  /\ p.c \in SprintfConversions /\ p.group \in BOOLEAN /\ p.width \in Nat /\ p.chars \in Nat
  /\ p.precision \in Nat \cup {NoPrecision, Negative}

ASSUME PrintfAssumption ==
  /\ Limits
  /\ Formats \subseteq Seq(STRING)
  /\ \A p \in Prints : IsPrint(p)
  /\ \A p \in Rooms : IsRoom(p)

VARIABLES
  printing,  (* what is done, and to what                                  *)
  printed    (* <<>> before, then what came of it                          *)

printfVars == <<printing, printed>>

PrintfInit ==
  /\ printing \in ({"parse"} \X Formats) \cup ({"print"} \X Prints) \cup ({"room"} \X Rooms)
  /\ printed = <<>>

Result(p) == vasnprintf(Buffer(p.function, p.maxlength), p.format, p.system, p.args)

Room(p) == tmp_length(p.c, p.type, p.width, Assumed(p.precision), p.chars)

Does(what, result) ==
  printed = <<>> /\ printing[1] = what /\ printed' = <<result>> /\ UNCHANGED printing

ParseFormat == Does("parse", printf_parse(printing[2]))
PrintText   == Does("print", Result(printing[2]))
MakeRoom    == Does("room", Room(printing[2]))

PrintfNext == ParseFormat \/ PrintText \/ MakeRoom

PrintfSpec == PrintfInit /\ [][PrintfNext]_printfVars
-----------------------------------------------------------------------------
TextAsC(r, p) ==
  LET parse == printf_parse(p.format)
  IN /\ FitsAndAgrees(parse)
     /\ BothAsC(r, parse, Total(p.format, parse, p.args), p.function, p.maxlength, p.takes,
                p.system, p.args)

RoomAsC(room, p) == HasRoom(room, p.c, p.type, p.group, p.width, p.precision, p.chars)

(* The printf functions put out the whole text or say rightly why not, and  *)
(* return what C says; no buffer of theirs is too small, but in the cases   *)
(* named, and no argument is fetched with another type than it is used      *)
(* with.                                                                    *)
PrintsAsC ==
  printed # <<>> =>
    /\ printing[1] = "parse" => FitsAndAgrees(printed[1])
    /\ printing[1] = "print" => TextAsC(printed[1], printing[2])
    /\ printing[1] = "room"  => RoomAsC(printed[1], printing[2])
=============================================================================
