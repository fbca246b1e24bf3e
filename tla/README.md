# A TLA+ model of libfrec and its grep

FREC is a regular expression library that puts literal search in front of an
existing matcher (TRE), and a grep built on it. Everything is sequential C: one
thread runs one call to its end. What is hard in it is not interleaving but
arithmetic on windows, shifts and offsets, tables that must agree with loops
written elsewhere, and state that is carried from one iteration, text section,
line or file to the next. The modules model these loops one iteration per step,
TLC runs them on all small inputs, and TLAPS proves the main results for all
inputs.

## 1. Inventory

Paths are below `src/libfrec/lib/` and `src/bin/grep/`.

| Component | State | Operations | Interacts with | Correct if |
|---|---|---|---|---|
| Hash table (`hashtable.c`) | array of pointers to entries | init, put, get, remove, free | called by both literal matchers | it is a map: what was put is got, whatever else was put, until the table is full |
| Wu-Manber (`wm-comp.c`, `wm-type.c`) | pattern list, shift table with prefix and suffix id lists; window position | `wm_compile`, `wm_execute` | hash table; called for pattern lists | the first occurrence is reported, or none truthfully |
| Boyer-Moore (`bm-comp.c`, `bm-exec.c`) | literal, anchors, bad and good shifts; window, memory of the last shift | compile literal or full, execute | regex parser, hash table (wide text); called for one literal and by the heuristics | as above, for the text the pattern stands for, at its anchors |
| Regex parser (`regex-parser.c`) | escaped, extended | `parse_char`, `parse_wchar` | both compilers | a character means what the syntax says |
| Heuristics (`heuristic.c`) | fragments, max. length, flags | push fragment, skip enclosures, build | parser, Boyer-Moore | each match contains the literal, within the stated distance |
| Compilation (`compile.c`, `interface-types.c`) | `frec_t`, `mfrec_t` and what they own | compile one or many, free | all of the above | the right matcher is chosen; everything is owned once |
| Matching (`match.c`, `match-utils.c`, `interface.c`) | text left, section, offsets of each level | execute, single and multi match | literal matchers find candidates, TRE decides in a section | offsets name a real match in the caller's text; none is lost |
| Strings (`string-type.c`) | pointer, length, ownership | borrow, duplicate, offset, section | everywhere | a section stays inside its text |
| grep files and context (`util.c`, `queue.c`) | globals `first`, `prev`, `tail`, `mcount`, `queue` | `procfile`, `procline`, enqueue, print, clear | line reader, matching | selected lines and their context are printed, the limit holds |
| grep main (`grep.c`) | options, patterns, counts | option parsing, loop over files, exit | the above | the exit status tells what happened |
| grep line reader (`file.c`, `fgetln.c`) | buffer, line buffer | open, refill, get line, close | decompression libraries | lines are the file's, whatever the block borders |
| TRE | – | external | called by compilation and matching | reports the longest of the leftmost matches |
| Tests, benchmark, message catalogues | – | – | – | – |

Hard behaviours, each with its line and its properties, are the `hazards` of
`PROJECT.json`: off-by-ones of windows and shifts, the full or wrapped hash
table, lists that must stay sorted, memory of earlier windows, offsets relative
to sections of sections, an answer that was never set, queues and globals that
outlive a line or a file, lines that lie across the blocks in which a file is
read, failures half-way through a compilation.

## 2. Modules

| Module | Models | Composes |
|---|---|---|
| `MapOps` | the operations of the hash table as its callers see them | – |
| `BoundedMap` | abstract: a map with room for `Cap` keys | – |
| `HashTable` | `hashtable.c`, one call per step | implements `BoundedMap` |
| `FirstMatch` | abstract: what a literal matcher promises | – |
| `WuManber` | `wm_compile` (one character per step), `wm_execute` (one window or list entry per step) | uses `MapOps`; implements `FirstMatch` |
| `RegexParser` | the parser and the literal test, as functions over the pattern | – |
| `BoyerMoore` | both compilations, table construction, turbo search, one iteration per step | `RegexParser`, `MapOps` |
| `Preg` | abstract: how the literal of a compiled pattern lies in what the pattern matches | – |
| `Compile` | `frec_mcompile`, `frec_compile`, `frec_preprocess_heur` (one character or skipped enclosure per step), `build_heuristic` | `RegexParser`; keeps the promise of `Preg` |
| `Match` | `execute_match`, `frec_match`, `match_heuristic`, `frec_mmatch` | relies on `Preg`; uses the literal matchers by what is shown of them |
| `Grep` | `main`'s loop, `grep_tree`, name patterns, `procfile`, `procline`'s loop, the queue | where a line matches is part of its input |
| `Options` | `main` before the search: `getopt_long`'s options (one per step), `add_pattern`, `read_patterns`, the operands | gives `Grep` its options |
| `LineSource` | abstract: files as sources of lines | – |
| `LineReader` | `grep_open`, `grep_refill`, `grep_fgetln`, `grep_close`, the offsets of `procfile` | implements `LineSource` |
| `HashTableProofs`, `WuManberProofs`, `BoyerMooreProofs`, `MatchProofs`, `GrepProofs`, `LineReaderProofs`, `CompileProofs`, `OptionsProofs` | theorems about the module of that name | |
| `MC...` | the instances that TLC runs | |

Correspondence of state and code: variables have the names of the C variables
(`len_shortest`, `srch_pos`, `prev_suf`, `suff`, `max_length`, `lnbuflen`, `tail`, ...);
`pc` names the loop or function that is running. Offsets count from 0 as in C and
sequences from 1, so that `PattChar(x)`, `TextChar(q)` and `Pattern(id)` do the
conversion in one place. A C array that is filled step by step is a function whose
domain grows. `map` in `PROJECT.json` names the lines of each definition. Definitions
marked *Faulty* are plausible mistakes in the code that stand next to what they
would replace; they show that the properties notice them and take part in no
specification.

* **HashTable.** Chains are modelled by the set `Before(k, s)` of places visited
  before `s`; the hash is any function. A put that runs out of memory ends the
  use of the table (`usable`), as all callers free it then. `hashtable_remove`
  has no caller and is in `SpecWithRemove` only.
* **WuManber.** The shift table is a finite map; a put may fail for room (the
  table has `4 * count` places) or for memory. Two assumptions name what callers
  must keep to: patterns of at least two characters, and at most 64 of them.
* **BoyerMoore.** Starts with `frec_compile`'s literal test, goes through
  `bm_compile_literal` or `strip_specials`, the computation of the suffix lengths
  and both loops of the good shifts, and ends with one search. `REG_NOTBOL` and
  `REG_NOTEOL` cut a character off the text as in `bm_execute`; `given` and `eflags` keep
  what the caller gave, so that the answer is judged by that text and not by the cut one.
* **Compile.** A pattern is its text and what it means to the original library:
  whether that accepts it, and, for each item (a character, a bracket, a group, one of
  them with its repetition), where it ends and which words it stands for, on its own
  and with all items before. So the parser's fragments can be compared with the
  meaning at every item border, not only at the end. `MeaningAssumption` says what the
  proofs need to know of TRE here (section 4). The place of the first
  fragment is read even if nothing was stored there; the model then has any
  member of `Uninitialized`.
* **Match.** Texts are intervals of the caller's text. A literal search finds the first
  occurrence, as is proved of both matchers for patterns that do not mislead them. A compiled pattern is a
  record of its kind, its literal, its maximum length and, for TRE, its set of
  words and its anchors. `KeepsPromise` of `Preg` is all that is assumed of it, and
  what is shown of `Compile` (`Promise`). `ret` has a value `"unset"`, as the C variable
  is not initialised.
* **Grep.** A line has its length and its leftmost match. `procline`'s loop makes
  one search per step, with the start offset, the number of matches and the
  early exits of `-x`, `-o`, `--color` and `-v`; a line that `frec_mregnexec` fails on
  (`err`) ends grep with status 2. Directories are given as a list in
  the order of the walk; `below` says how many entries to leave out where a
  directory is pruned, and a directory that cannot be listed (`locked`) sets `file_err`. The
  standard input is an entry of its own and may be one that cannot be read. Directory and
  name patterns are given by the set of those
  that hit. `total`, `file_err` and the exit status are `main`'s.
* **LineReader.** `read` returns any number of bytes from 1 to the block size, and may
  fail where the input says so; a mapped file is one block. `lnbuf` holds only the
  bytes that were written to it, so that an unset byte cannot be returned
  unnoticed. Mapped files end in a newline (`EndsInNewline`): on others
  `grep_fgetln` does not come to an end (section 6).

* **Options.** A word of the command line is a cluster of options, `--`, or an operand; an
  option carries its argument in the form that `main` tells apart. `getopt_long` is
  external: it passes over operands and keeps them (`passed`), stays at a word until the
  last option of the cluster, and stops at `--`. `optind` is what `main` sees of that, and
  `newarg`, `lastc` and `prevoptind` are its own. `flags` has the flags that are set by the
  letters of their options, `behave` the six `...behave` variables. A line of a pattern file
  is one step. `Grep` takes it for granted that offsets were asked for where `-o`, `-x` or
  colours use them; that is `OffsetsWhereUsed`.

## 3. Runs

| Run | Question | Instance |
|---|---|---|
| `wm` | Does the table built character by character make the search report the first match? | all patterns of 3 and 4 characters over two letters, all pairs of 3, some with 5, three patterns, one that does not fit; texts up to 6 |
| `bm` | Are the tables the Boyer-Moore tables, and does the turbo search skip nothing but where two of its rules are wrong? | all patterns up to 5 over two letters, two of 7 with nested borders, the misled one of 8, anchors, escapes; all texts of 9 over two letters, of 4 over three; with and without `REG_NOTBOL` and `REG_NOTEOL` |
| `hash` | Is the table a map? | 4 keys, 3 places: a collision, a wrap-around, a full table |
| `compile` | Is each literal that is searched for in every match, where the heuristic says? | patterns of up to three of 14 items in both syntaxes, `REG_NEWLINE`, anchors, alternatives, refused patterns; lists of two; `MAX_FRAGMENTS` 2 |
| `match` | Are offsets right at every level, is the answer the original matcher's? | 11 single patterns, 7 lists of all four kinds; texts up to 6 over two letters, up to 4 with line feeds; a part of the text to search |
| `lines` | Are the lines those of the files, whatever the blocks? | a file of up to 6 bytes, or two short ones, read, mapped or missing, with failing reads; blocks of 1 to 3 bytes |
| `grep` | What is printed, what is the exit status, does it end? | one file of up to 6 lines, two of any kind up to 2; `-A`, `-B` 0 to 2, `-m` none to 2, the modes; whole, partial, missing matches and empty lines with `-o`, `-x`, `-v`; searches that fail; names, trees with and without a directory that cannot be listed, the empty pattern with lines and files that are empty, standard input of every kind |
| `options` | Do all orders and spellings of options come to what was asked for? | up to three of 14 words, any of 62 others next to one of these, a word in `GREP_OPTIONS`, all program names, headers with two files; `LLONG_MAX` 25 |
| `wm_full`, `bm_escapes`, `bm_turbo`, `match_bounded` | Statements of a comment or a test that the code does not keep | see section 6 |

Why the bounds are enough. For `wm` the shortest pattern has 2 to 4 tabulated
columns, so a character is first, middle and last, in several patterns at once,
and a text of 6 leaves room for two shifts before a match. For `bm` periodicity
needs a pattern with a border inside a border (`baabaab`, `abacaba`) and a text in
which two windows overlap (9 characters for patterns of 5). For `hash` one slot
fewer than keys makes the table full, and a hash at the last place makes chains
wrap. For `compile` what the parser carries over an item is the fragment, the flags
and the length; three items are one before, one that changes them, and one behind;
two fragments fill the array, so that a third gives up. For `match` a text of 6
holds a failed section, a second one, and a match in it. For `lines` six bytes are
more than two blocks of three: a line crosses two borders, is found in the middle of
a block, at its last byte, and not at all; a newline is the first byte of a block.
For `grep` six lines hold two selected lines that are closer than, as far as, and
farther apart than the context of 2 on each side; limits 0, 1 and 2 are spent
within the first file, at its end, and in the second, which may be one that cannot be
read; the tree has a directory in a directory and a file behind it, so that a wrong
`below` shows. For `options` a word is
before, between and behind two others: what `main` carries from an option to the next
(`lastc`, `newarg`, the arrays, the flags) comes from the one or two before; numbers of one
to three digits reach the limit of 25, pass it, and stay below.

`CHECK_DEADLOCK FALSE` is in every configuration: a matcher's call ends, options
end, a grep exits, the last file is closed, and a table whose put failed is not used any more.

### Properties

* *Shape of the tables*: `ShiftTableSafe`, `ListsSorted` (Wu-Manber);
  `TablesAreBoyerMoore` compares the linear-time construction with the textbook
  definition; `ChainsUnbroken`.
* *Search*: `NothingSkipped` (no shift passes an occurrence), `PassedCharsAgree` (what
  the turbo search does not compare does agree), `ReportsFirst`, and for Boyer-Moore
  `NoMatchIsTrue`; the one of Wu-Manber is part of what `ImplementsFirstMatch` says, and
  proved. For Boyer-Moore `NothingSkipped`, `NoMatchIsTrue` and the first-ness in
  `ReportsFirst` have the precondition `ShiftsAreSafe`: not `Misled` (section 6) and
  `OneTerminator`. The first speaks of the pattern alone and fails for no pattern of
  fewer than eight characters, and for none over two letters up to 15; the second
  fails only for a pattern with `^` and a zero byte inside. `ReportsFirst` and
  `NoMatchIsTrue` are about the text and the flags of the caller. The first has the
  precondition `NothingCutOff` as well: with `REG_NOTBOL` and `^`, or `REG_NOTEOL` and `$`, the code
  takes the cut for a border of the text, and its offsets are wrong (section 6). The second
  holds for the flags too: a cut accepts too much, never too little.
* *Compilation*: `FragmentsInEveryWord` (whatever was read, each word has the fragments
  in order, apart from each other, within the length, and the flags are true of
  it), `Promise` (what `Match` assumes), `CandidatesComplete` (no pattern of a list is
  without a literal under its number).
* *Refinement*: `ImplementsFirstMatch`, `ImplementsBoundedMap`, `ImplementsLineSource`.
* *Matching*: `OffsetsNameAMatch`, `AnswersAsOriginal`, `NoSubIsExact`, `RetIsSet`.
  `AnswersAsOriginal` is restricted to patterns whose heuristic is exact: no
  bounded sections and no `$` with sections, for which it is false (section 6).
* *Line reader*: `BuffersHoldFile` (block and line buffer together are the part of the
  file between the lines returned and the descriptor; nothing is left when it is
  closed).
* *grep*: `QueueIsRecent`, `PrintedExactly`, `InOrder`, `GapsSeparated`, `LimitExact`,
  `ExitTruthful`. A hit is what the manual says: a line that matches, as a whole with `-x`,
  and with `-v` one that does not. `PrintedExactly`, `LimitExact` and `ExitTruthful` have the
  precondition `AsDocumented`, because the code contradicts the manual for empty lines
  and for `-v` (section 6). It leaves out the inputs in which an empty line matches, and with
  `-v` all but lines that match and are searched with `-o` or `--color`.
  - `PrintedExactly` counts: a selected line is printed once, and another line once if it trails
    a selected one within `-A`, and once more if it leads one within `-B`. So with both `-A`
    and `-B` a line may be printed twice, and no more often: trailing context is queued too and is
    printed again in front of the next selected line. No document says that it must not. For
    this reason `InOrder` is restricted to context on one side.
  - `LimitExact`: as many lines are printed as there are hits and `-m` allows. By the
    manual `-m` is a limit for each file, in the code for all of them (section 6). The property
    is about inputs for which both are the same (`OneLimit`: the limit is not passed, or all hits are
    in one file) and about searches that go on to the last file (`PrintsToTheEnd`).
  - `ExitTruthful`: the status is 2 if and only if a file or a directory could not be
    read, but for `-q` with a selected line; else 0 or 1 by whether
    a line was selected. `ErrorsShow` leaves out the three cases of section 6 in which an error
    does not show. A search that fails gives 2, unless `-m`, `-l` or `-q` end grep before it.
* *Options*: `ContextAsGiven` (the last number for each side counts, in whatever form it is
  given; but for numbers of several digits right behind an operand, section 6),
  `PatternsAsGiven` (the patterns and files are the same wherever options stand among
  operands), `LengthsFit` (not of the empty pattern that replaced others, section 6),
  `HeadersAsGiven`, `OffsetsWhereUsed`. The first three compare the
  state `main` arrives at with definitions over all words at once.
* *Types*: one invariant for a module. `Match` and `Grep` check it as it stands, `WuManber` as
  part of `IInv`; those of `HashTable`, `BoyerMoore`, `LineReader` and `Options` are proved and
  not run. `Compile` has none: what its places and fragments must be is said by the
  properties above.
* *Liveness*: `Returns` for the three matchers, `CallReturns` for the line reader, and
  `Ends` for grep. `Ends` has a precondition, `LoopEnds`: without offsets a line is
  searched once, but with them the loop of `procline` ends only under the condition
  stated there (section 6).

### Fairness

Only weak fairness of a call's own steps: `WF_vars(Compile)` and `WF_vars(Search)` in
`WuManber`, `WF_vars(Next)` in `BoyerMoore`, `Match` and `Grep`, and `WF_vars(Step)` in
`LineReader`, where `Step` has the steps of a call that was made. The code is a loop in
one thread and takes its next iteration whenever it can. The start of a search
(`Execute` of `WuManber`) and the call of the next line (`Call`) are not fair: nobody has
to call them. `HashTable`, `Compile` and `Options` claim no liveness and assume
no fairness.

## 4. Proofs

* **`WuManberProofs`** (all lists of 1 to 64 patterns of two characters and more, all
  texts, any alphabet): types, sorted lists, a safe shift table, no skipped
  occurrence, the first match, truth of `REG_NOMATCH`. None of these is inductive.
  `IInv` adds what the loops have established so far: `LoopInv` (ranges of the loop
  variables, `len_shortest` below the lengths measured), `TableComplete` (each
  character *entered so far* has a small enough shift and its pattern is listed
  under its first and last column), `TableSound` (lists are increasing, hold only
  ids entered, and have no more elements than ids exist) and `ScanInv` (the window
  being scanned, and that the entries passed were no hit). There is a lemma per
  action (`FillCharInv`, `SkipInv`, `ScanHitInv`, ...). The argument of the search is in
  two lemmas: `OccurrenceSeen` (an occurrence that is not ruled out keeps each shift
  from passing it) and `OccurrenceScanned` (in the window of an occurrence both
  lists have its id, so the merge finds it). TLC evaluates `IInv` in run `wm`.
  `MatcherAnswers` is the refinement of `FirstMatch` step by step: with `ReportInv` (the
  answer is kept from the end of the search on) each call maps to one of `FirstMatch`, and
  the search's iterations stutter. It has the hypothesis `LongPatterns`, more than two
  characters in each pattern, as two are never found (section 6), and is about `Safety`
  of `FirstMatch`; that an answer comes is fairness.
* **`BoyerMooreProofs`** (any alphabet, all patterns, flags and texts): types,
  `TablesAreBoyerMoore`, `PassedCharsAgree`, `NothingSkipped`, `ReportsFirst`,
  `NoMatchIsTrue`. `IInv` follows the call through its loops. `SuffInv`: the suffix lengths
  computed are right (`CommonSuffix`), and the pattern from `g` to `f` is known to repeat
  its end, which is why a length may be reused (`KnownSuffixRight`). `PrefixInv`: left of
  `j` each place has its least border, right of it there is none among those seen.
  `GoodInv`: each good shift fits, and a lesser one that fits belongs to a suffix not
  looked at yet (`FoundTo`); when the loop ends there is none left. `MemoryInv`: what
  `prev_suf` remembers lies under the window where `i` passes it, agrees with the text,
  repeats after `shift`, and is either the pattern's beginning or ends where the
  repetition is broken. `CutInv`: the text that is searched is the caller's but for what the
  flags cut off, from which it follows that an occurrence in it is one for the caller if nothing
  was cut off, and that none in it always means none for the caller. The argument of the
  search is that an occurrence `d` places
  ahead of a mismatch (`Ahead`) is not passed by the good shift (`AheadFits`), the
  bad-character shift (`AheadBad`), the turbo shift (`AheadTurbo`), nor by
  `prev_suf + 1` where the repetition is broken (`AheadBroken`); in the case that is left
  the pattern is `Misled` (`AheadMisled`). That the last case cannot be proved away is how
  the finding of run `bm_turbo` came up. What is needed of `RegexParser` (the stripped
  pattern is a string, `$` is refused, `^` brings the terminator) does not need
  induction over data: `EscapedAtDef` and `AssembledExists` show that the recursive
  functions exist by the least number at which one would not. TLC has evaluated `IInv` on
  the instance of run `bm`.
* **`HashTableProofs`** (any set of keys, any size above 0, any hash function): types and
  unbroken chains are inductive (`IInv`); `FoundWherePresent`, `FreeMeansAbsent` and
  `NowhereMeansFull` turn a search along a chain into a statement about the whole
  array; with them every call maps to a call of `BoundedMap`, and `TableIsMap` is the
  refinement `Spec => ImplementsBoundedMap`. `TypesWithRemove` is what still holds with
  `hashtable_remove` among the calls.
* **`MatchProofs`** (all lists of patterns that keep the promise, all texts and ranges):
  types, `OffsetsNameAMatch`, `AnswersAsOriginal`, `NoSubIsExact`, `RetIsSet`. All but
  the first speak of the end of a call, so `IInv` must say what holds on the way:
  `TextInv` (the text left is the end of the range, `glob` its offset), `CallInv` (where
  the text of `frec_match` lies in it; `Progress`: no match of the text it was called
  with lies before the section that is next, if the heuristic is exact; and the
  answer once it returned), `NoneInv` (what the patterns tried one by one gave),
  `AnswerInv` (the answer before it is rebased). The core is that a match of an exact
  pattern lies within one line, so that the section of a candidate that fails takes no
  match with it, and that the first candidate of a prefix heuristic is not behind
  the first match. The promise is `PregsAssumption`; `PromiseKept` of `CompileProofs`
  proves the same formula for what `Compile` makes of patterns.
* **`LineReaderProofs`** (all files, block sizes above 0, results of `read`, any failing
  reads, with and without `mmap`): types, `BuffersHoldFile`, and `LinesOfTheFile`, the
  refinement `Spec => ImplementsLineSource`. `IInv` has `PlaceInv` (the descriptor and the
  block), `BuildInv` (the block and `lnbuf` are the file's bytes, and `lnbuf` has no
  newline) and `ResultInv` (the last line, its offset, and that it ended where a line
  does). A step that returns a line is `GetLine`; one that copies or refills
  stutters; only `LineStart`, the file offset of the first byte not returned, has to be
  followed.
* **`GrepProofs`** (all files, trees, matches and options): types, `QueueIsRecent`,
  `WithinLimit` (over all files no more lines are selected than `-m` allows), and all
  other invariants of run `grep`. `IInv`: `QueueInv` says of every moment within a line
  that the queue is the last lines *done* (`Recent`), `PlaceInv` where in a file the program
  is, `LimitInv` that what was selected so far and `mcount` add up to the maximum. On top of
  it there are invariants for one question each:
  - `ExitTruthful`: `SearchInv` (the loop of `procline` selects a line if and only if it is a
    hit), `TreeInv` (the directories above the present entry were all selected, what is
    opened is to be searched), `ReadInv` (as long as nothing was selected there is no hit
    in what is behind; `PassedOver`: what is skipped is not to be searched), `TakenInv` (when
    a line was selected there is a hit, and as many as the limit is short of),
    `ErrorInv` (if `file_err` is set, some entry fails; if not, those behind fail only where
    the limit was spent before, `SpentBefore`) and `FailureInv` (a search that fails is not left behind, unless
    `-m`, `-l` or `-q` end the file: `LeavesEarly`).
    `TreeInv` needs that what is in a directory's subdirectory is in the directory, which
    `CallsAssumption` says of the trees that `fts` can walk.
  - `InOrder`, `GapsSeparated`: `Prints` describes what one step adds to the output (separators,
    then lines that follow each other), `OutputInv` what can have been printed so far, and
    `ShapeInv` that the globals `first`, `prev` and `tail` tell what was printed last.
  - `PrintedExactly`: `ContextInv`, of every line done. `QueueEnds`: the queue reaches back to the
    last hit, the start of the file or `-B` lines; `TailCounts`: `tail` counts from the last
    hit; `LinesPrinted` is the property itself with these. The hard case is a hit whose
    leading context reaches past the queue: what it lacks was printed before. How often a line
    was printed, at most once as trailing and once as leading context, is counted.
  - `LimitExact`: `CountInv` counts the lines done (`Done`) that were selected with those printed
    until the limit is spent, and keeps as many as it allows from then on. It is about what the
    code does in all files; `DocumentedHits` says that with the preconditions these are the
    hits of the manual. That there are finitely many (`HitsFinite`) is needed to count them.

  TLC has evaluated these invariants on the instance of run `grep`.
* **`CompileProofs`**, first part (all lists of patterns): `FailureFrees` (what is freed after
  a failure is exactly what was compiled) and `EveryPatternIsListed`, from `ListInv` (the
  patterns behind are compiled, the present and later ones are not; `err` is unset
  until one fails).

  Second part (all lists of patterns of which `MeaningAssumption` holds, of any length,
  over any characters, any number of items and words): `FragmentsInEveryWord`, `Promise` and
  `CandidatesComplete`. The first speaks of the moments at which the reader is at the end of an item,
  and is not inductive: behind an atom nobody knows yet whether `*` follows and takes its
  last character back. `PatternRead` therefore has two cases. `AtItem`: all words up to
  here fit (`Fits`) what was read. `BehindAtom`: the words up to the item before fit what
  will be left if a repetition takes the last character back, and the item, if it ends here,
  fits with it (`PendingFragment`). `Fits` is the property in a form that needs no recursion: `Embedded` says that
  there are places for the fragments, one behind the other, and `EmbeddedOccurs` that
  the property's search for the first places then succeeds. What a step does to `Fits` is
  `PlainFits` (one more character) and `PushedFits` (a fragment is pushed, and what follows
  it has any words); `ItemEnds` and `RepetitionEnds` apply it to each kind of item.
  `ReadInv` is `PatternRead` while a pattern is read, `BuildInv` what is left of it when the heuristic
  is built, `SizeInv` that no fragment is empty or longer than the bound, and `StartInv` that behind a
  leading `^` no fragment counts as the start of a match. `FrecsInv` says that every pattern compiled
  so far keeps its promise, `WmInv` that the list for Wu-Manber is made of their literals;
  `LiteralMeans` that a pattern that frec_compile takes for plain has only itself as a word. As in
  `BoyerMooreProofs`, the few facts that need induction over a list come from the least
  number at which one would not hold. TLC has evaluated `ReadInv`, `SizeInv`, `BuildInv`, `FrecsInv`
  and `WmInv` on the instance of run `compile`.

  `MeaningAssumption` is about TRE, which is external. It says that an item is one atom and at
  most one repetition; that a character stands for itself, `.` and a bracket for words
  of one character, an anchor for the empty word, and a character with `+` for words that
  begin with it; that a line feed in a word comes from an atom that can match one; that
  a pattern's words are those of its items, joined; and that the empty pattern is not
  one of several, as grep lets it replace the others. Of groups and other repetitions it
  says nothing more. Nothing is assumed of what lies behind a place where
  `frec_preprocess_heur` gives up. These kinds of patterns do not satisfy it. Of the
  first four the heuristic may be wrong (section 6): brackets that have `]` as their first
  member; groups whose line feeds cannot be seen in their text (a negated bracket, `\n`) or
  that hold escaped parentheses; repetitions of a repetition; and basic expressions in
  which `^` or `$` are ordinary characters, as inside of `a^b` and `a$b`. The last are basic
  expressions with a `*` that is an ordinary character, at the start or behind `^`: nothing
  is said of them, although there the fragments do not depend on what `*` means.
* **`OptionsProofs`** (all words, program names and pattern files): types, `LengthsFit`
  (there is a pattern at least, and each has its length; of the length of the empty pattern
  that replaced all others nothing is said), `OffsetsWhereUsed`, `HeadersAsGiven`,
  `ContextAsGiven`, `PatternsAsGiven`. `IInv` adds `WordsInv` (where `getopt_long` stands:
  within
  a cluster only at one of its options) and `HeaderInv`, which says of every moment that
  `hflag` and `Hflag` are those of the options *read so far* (`ReadOf`). `AdvanceReads` (one more
  is read by each step, and none is passed over) and `GivenIsRead` (at the end those
  are all that are given) connect it with the property.
  - `ContextAsGiven`: `ContextInv` says that each width is that of the last option *read* for its
    side (`LastRead`), and `DigitInv` that `lastc`, `newarg` and `prevoptind` tell whether the next
    digit goes on with a number, and with which one.
  - `PatternsAsGiven`: `PatternInv` says that patterns and lengths come from what was read of
    the words (`SoFar`) and, within a pattern file, from the lines before those that are left;
    `FinalInv` that when the search begins these and the operands are all that was given
    (`PatternsAllGiven`: options stop at `--`, operands before it were kept).
    `JoinedExists` and `JoinedDef` show that the functions over all words exist.
  Of the command lines `CallsAssumption` says that options, arguments and operands are of the
  kind `getopt_long` makes of words.

The assumptions are those named in the modules (`PatternsAssumption`,
`TextsAssumption`, `SizeAssumption`, `HashAssumption`, `NullAssumption`,
`PregsAssumption`, `CallsAssumption`, `MatchesAssumption`, `SizesAssumption`,
`InputsAssumption`, `BehavioursAssumption`, `FragmentsAssumption`, `MeaningAssumption`, `LimitAssumption`);
TLC evaluates them in the runs.

Only model-checked: liveness, which like `ENABLED` is outside the prover's reach. That is
`Returns` for the matchers, `CallReturns`, `Ends`, and the fairness part of
`ImplementsFirstMatch`. All other properties of the passing runs are proved.

## 5. Not modelled

* Wide characters and their tables, except that they run the same code; signed
  characters as table indices; `REG_ICASE`, which both literal matchers ignore or only
  half support; `REG_NOTBOL` and `REG_NOTEOL` in `match.c` (`BoyerMoore` has them);
  submatches after the first.
* Patterns of one character in Wu-Manber, which look at the character before the
  window: what is read there is not defined.
* Running out of memory in `compile.c` and `heuristic.c` (except in Boyer-Moore), and
  with it who owns strings and compiled structures and how often they are freed;
  `Compile` only follows which patterns are freed.
* The end of grep's pattern array, negative numbers as arguments, options that a build
  without the library for them refuses; the width of `tail`; symbolic links and loops of
  directories (`FTS_DC`, which warns and sets no error), the format of a printed line,
  anchored patterns where a search starts
  inside a line, decompression, and `fgetln.c`, which replaces a missing C function.
* TRE, which is external: the longest of the leftmost matches in the text it is given.
* Scripts, the benchmark, wrappers that convert arguments, and message catalogues.

## 6. Findings

| Run | The code | The statement |
|---|---|---|
| `wm_full` | sizes the table by patterns, not by characters; long patterns do not compile | `check_wu_manber.c:27,53` compiles one |
| `bm_escapes` | searches a literal pattern with its backslashes | `check_interface_single.c:46` expects a match without |
| `bm_turbo` | passes an occurrence that begins within the remembered stretch: `abacaaba` is not found in `cacabaabaabacaaba` | `bm.h:20` promises the first match |
| `match_bounded` | continues behind a section of bounded length, inside of which a match may begin | `match.c:103` |

Also seen while reading. The models keep to the code here, and a property that
would fail for one of them has a precondition that names it:

* *Literal matchers.* The two rules of `exec_turbo_bm` that `ShiftsAreSafe` excludes. The rule
  that a bad character's shift must exceed `prev_suf` (`bm-exec.c:149`) is right where what is
  remembered ends before a character that breaks the repetition; after a shift by a
  border it is the pattern's own beginning, and an occurrence may start in it (`Misled`;
  `bm_turbo`). After a match that `^` refuses the search goes on with the shift of an
  earlier window (`bm-exec.c:116`), which may pass an occurrence of a pattern that has a
  zero byte inside. A character too many is copied after a leading caret, the
  terminator (`bm-comp.c:305`), so that `^ab` is found nowhere in ordinary text, though
  `bm-comp.c:290` and `bm-exec.c:181` mean it to be found. With `REG_NOTBOL` and a leading `^` the
  first character is cut off the text (`bm-exec.c:186`), and nothing adds it back to the
  offsets (`bm-exec.c:111`), which `bm.h:20` calls the start and end of the match: a match further on
  in the text is reported one place too far to the left. Moreover the caller's second
  character, now the first, is taken for the start of a line, and with `REG_NOTEOL` and `$` the last
  but one for its end (`bm-exec.c:189`). `NothingCutOff` leaves these out.
  `hashtable_remove`, which nobody calls, leaves gaps in chains
  (`hashtable.c:206`). Patterns of two characters are never found by Wu-Manber
  (`wm-comp.c:65`).
* *Heuristics.* A bracket ends at its first `]` even where that is a member
  (`heuristic.c:125`), escaped parentheses count in a group (`heuristic.c:148`), a
  pattern with a line feed of its own counts as one line under `REG_NEWLINE`
  (`heuristic.c:200`), the first fragment is used even if there is none
  (`heuristic.c:224`), and the literal is compiled without the caller's flags
  (`heuristic.c:228`). Behind `a+` the fragment `a` is kept even if another repetition
  follows that makes the item optional, as in `a+*` (`heuristic.c:297`), and a group is said to
  match no line feed if there is only a negated bracket in it, or `\n`
  (`heuristic.c:154`). In a basic expression like `a^b` or `a$b`, where `^` and `$` are ordinary
  characters, they are not counted in the length (`heuristic.c:306`). These are the patterns
  that `MeaningAssumption` leaves out.
* *Compilation.* A failure in Boyer-Moore frees twice (`compile.c:63`);
  `frec_mregfree` frees `wu_manber` though it is unset after a refused pattern, unless
  the caller had zeroed the structure (`compile.c:180`).
* *Matching.* The end of a section satisfies `$`: `a.$` matches the first two characters of
  `aaa` (`match.c:93`; the original library finds none there, and `benchmark/README.md:85`
  expects no difference). In a list that is matched with Wu-Manber a pattern of the prefix kind gets
  the line of its candidate, although its matches may go on behind it
  (`match.c:203`); the second search of the first match, when patterns are tried one
  by one, reports offsets within that match (`match.c:324`).
* *grep's options.* A pattern of several lines, given with `-e` or as an operand, is one
  pattern (`grep.c:491`; `grep.1:88` lets any of its lines match). A number of several
  digits that comes right behind an operand counts
  with its last digits only: `grep pattern -12` gives a context of 2 (`grep.c:676`). `-C` needs
  its argument, though the usage message (`grep.c:81`) leaves it out, and `-P` is
  accepted by `optstr` and then refused (`grep.c:672`). The pattern arrays do not grow
  (`grep.c:251`).
* *grep.* With `-o` or `--color` the next search of `procline` starts at the start of the match,
  counted from the last start, so that a line that matches is searched for ever, unless
  `-v`, `-q` or `-l` end the loop; and
  with these, `-x` or `-w` so is a line that is not empty and does not match
  (`util.c:285`; the precondition of `Ends`). Without `-o` and `--color` the loop is left
  after a match before it looks at `-v`, which so has no effect (`util.c:310`;
  `grep.1:358`). A line without characters is never searched, not even for the empty
  pattern (`util.c:278`; `grep.1:67`); `AsDocumented` leaves out these two. The limit of `-m` is one for
  all files, and once it is spent no further file is opened (`util.c:235`, `util.c:177`),
  though `grep.1:305` has grep stop reading *the file*; `OneLimit` leaves out where this differs. So a later file that
  cannot be read does not show in the exit status. Nor does a standard input that
  cannot be read, which gives 1 (`grep.c:726`; `grep.1:414` says more than 1), nor any error if
  an empty file meets the empty pattern, which ends grep with 0 at once, whatever the
  other files (`util.c:212`; `grep.1:410` calls 0 that a line was selected). `ErrorsShow`
  leaves out these three. `tail` is an `int`, `-A` is not (`util.c:331`).
  `-o` prints empty lines (`util.c:447`). The length of the
  first pattern is kept when the empty pattern replaces all (`grep.c:247`). A mapped
  file without a final newline does not come to an end (`file.c:92`). A read that fails
  behind the first block is taken for the end of the file and does not show in the exit
  status (`util.c:212`).

## 7. Plan

Done, in this order: `HashTable` with `BoundedMap`, `WuManber` with `FirstMatch` and
the proofs of both, `BoyerMoore` with `RegexParser`, `Match`, `Grep`; then `Preg` and
`Compile`, `LineReader` with `LineSource`, the loop of `procline`, directories and names
in `Grep`, the proofs about `Match`, `LineReader` and `Compile`; `Options` with
its proofs; those about `BoyerMoore` and `Grep`; the refinement of `FirstMatch` by
`WuManber`; the meaning of patterns in `Compile` and the promise of its results; the context and
the patterns in `Options`.

Left: ownership in `compile.c`, who frees `boyer_moore`, `heuristic`, `wu_manber` and the
strings on each path when memory runs out.
