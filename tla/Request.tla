-------------------------------- MODULE Request --------------------------------
(***************************************************************************)
(* What a request asks for (CXHPara): its parameters, the kind of its key, *)
(* and the categories that are searched for it in their order; and what    *)
(* SearchResult finds for them in the tasks.                               *)
(*                                                                         *)
(* r is a request, the parameters it was sent with by name: w the word, p  *)
(* the prefix, x the task, and numbers; one that was not sent is NotSent.  *)
(* ts and sffc are sets of bits, AllBits if they were not sent.            *)
(***************************************************************************)
EXTENDS Pinyin, TreeFind

CONSTANT Second(_)   \* addtasksecondname and a name

NotSent == -1
AllBits == 0 .. 31
NUMBER_MAX_FLAG_LIMIT == 65535

\* ToInt: a number within bounds.  A negative one is unsigned there, and so above them all.
ToInt(v, min, max, default) == IF v = NotSent THEN default ELSE IF v < 0 \/ v > max THEN max ELSE IF v < min THEN min ELSE v
Switch(v) == ToInt(v, 0, 1, 0) = 1

KeyCase(c) == ToLower(c)

\* The word without what is no character, letter, digit or quote.  Half a character ends it.
CleanKey(s) ==
  LET of[i \in 1 .. Len(s) + 1] ==
        IF i > Len(s) \/ (i = Len(s) /\ s[i] < 0) THEN <<>>
        ELSE IF s[i] < 0 THEN <<s[i], s[i + 1]>> \o of[i + 2]
        ELSE (IF Letter(s[i]) \/ IsDigit(s[i]) \/ s[i] = QUOTE THEN <<KeyCase(s[i])>> ELSE <<>>) \o of[i + 1]
  IN  of[1]

(***************************************************************************)
(* The flags of an entry that are good.  left is what iFlagEqual holds     *)
(* when flg was not sent: it is not set then.                              *)
(***************************************************************************)
Flag(v) == ToInt(v, 0, NUMBER_MAX_FLAG_LIMIT, 0)
CommonBit(a, b) == \E i \in 0 .. 15 : (a \div 2^i) % 2 = 1 /\ (b \div 2^i) % 2 = 1

WithFlag(r) == \E v \in {r.flg, r.flgl, r.flgu, r.flga, r.flgo} : Flag(v) # 0

IsGoodFlag(r, left, flag) ==
  LET equal == IF Flag(r.flg) # 0 THEN Flag(r.flg) ELSE left
  IN  \/ ~WithFlag(r)
      \/ equal # 0 /\ flag = equal
      \/ /\ equal = 0
         /\ Flag(r.flgl) # 0 => flag >= Flag(r.flgl)
         /\ Flag(r.flgu) # 0 => flag <= Flag(r.flgu)
         /\ Flag(r.flga) # 0 => CommonBit(Flag(r.flga), flag)

-----------------------------------------------------------------------------
KeyTypes == {"chinese", "chinesespell", "spell", "spellnum", "withdot", "ninegrid", "number", "unknown"}

\* Init_SearchKeyAnly.  Characters with digits are searched as characters alone are.
SearchKeyType(key, bNineGrid) ==
  LET Has(Is(_)) == \E i \in DOMAIN key : Is(key[i])
      chinese == Has(LAMBDA c : c < 0)
      char    == Has(Letter)
      num     == Has(IsDigit)
  IN  IF chinese THEN IF char /\ ~num THEN "chinesespell" ELSE "chinese"
      ELSE IF char THEN IF num THEN "spellnum" ELSE IF Has(LAMBDA c : c = QUOTE) THEN "withdot" ELSE "spell"
      ELSE IF num THEN IF bNineGrid THEN "ninegrid" ELSE "number"
      ELSE "unknown"

HeadUpper(s) == IF s = <<>> THEN s ELSE <<ToUpper(s[1])>> \o Tail(s)
Bytes(parts) == FoldLines(LAMBDA a, b : a \o b, <<>>, parts)

\* GetMixKey: the parts, each with its first letter in upper case, if one that is not the last
\* is a letter alone and one is longer.  <<>> if there is none.
GetMixKey(key) ==
  LET part   == splitPinyinWithSimple(key).part
      single == \E i \in 1 .. Len(part) - 1 : Len(part[i]) = 1
      mul    == \E i \in DOMAIN part : Len(part[i]) # 1
  IN  IF Len(key) > 2 /\ single /\ mul THEN Bytes([i \in DOMAIN part |-> HeadUpper(part[i])]) ELSE <<>>

\* StringDotFormat: without the quotes, each letter after one in upper case.
DotKey(key)    == Bytes([i \in DOMAIN key |-> IF key[i] = QUOTE THEN <<>>
                                              ELSE IF i = 1 THEN <<ToUpper(key[i])>>
                                              ELSE IF key[i - 1] = QUOTE THEN <<ToUpper(key[i])>> ELSE <<key[i]>>])
DotSimple(key) == SelectSeq(key, LAMBDA c : c # QUOTE)

\* The switches of the strategies, bits of sffc.
ChineseCorrect == 2
ManyTaskSearch == 3
ChineseSpellCorrect == 4
SpellSimpleCorrect  == 5

Center == {CENTER_CHINESE, CENTER_SPELL, CENTER_SIMPLE}

(***************************************************************************)
(* Init_SetupCategory: the categories of the request in their order.       *)
(* Those of the own task come before the same ones over all tasks.         *)
(***************************************************************************)
Categories(r) ==
  LET key   == CleanKey(r.w)
      With(bit) == bit \in r.sffc
      Use(t) == /\ t \in r.ts
                /\ ~(Switch(r.sl) /\ SelectChangeFromEx(t) \in Center)
      Setup(list) == SelectSeq(list, LAMBDA c : Use(c.tree))
      All(list)   == [i \in DOMAIN list |-> [list[i] EXCEPT !.tree = EX(@), !.all = TRUE]]
      Both(list)  == Setup(list) \o (IF With(ManyTaskSearch) THEN Setup(All(list)) ELSE <<>>)
      C(t, match, add, k) == [tree |-> t, match |-> match, all |-> FALSE, add |-> add, key |-> k]
      Trees(list, match, k) == [i \in DOMAIN list |-> C(list[i], match, 10000, k)]
      Spelt(match, full, short) ==
        <<C(SPELL, match, 10000, full), C(SIMPLE, match, 0, short)>>
      SpeltCenter(full, short) ==
        <<C(CENTER_SPELL, MATCH_CATEGORY_COMMON, 10000, full), C(CENTER_SIMPLE, MATCH_CATEGORY_COMMON, 0, short)>>
      Letters(full, short) == Both(Spelt(MATCH_CATEGORY_COMMON, full, short) \o SpeltCenter(full, short))
      Words  == Both(Trees(<<CHINESE, CENTER_CHINESE>>, MATCH_CATEGORY_COMMON, key))
      spell  == getPinyin(key)
      Correct == IF With(ChineseCorrect)
                 THEN Both(Trees(<<SPELL, CENTER_SPELL>>, MATCH_CATEGORY_COMMON, HeadUpper(spell))) ELSE <<>>
      word   == SelectSeq(key, LAMBDA c : c < 0)
      Mixed  == IF With(ChineseSpellCorrect) /\ word # <<>> /\ Len(word) % 2 = 0
                THEN Both(Trees(<<SPELL, CENTER_SPELL>>, MATCH_CATEGORY_MIXEDCS, spell \o <<BAR>> \o word)) ELSE <<>>
      mix    == GetMixKey(key)
      SpellSimple == IF With(SpellSimpleCorrect) /\ mix # <<>>
                     THEN Both(Trees(<<SIMPLE, CENTER_SIMPLE>>, MATCH_CATEGORY_MIXEDSS, mix)) ELSE <<>>
      type   == SearchKeyType(key, Switch(r.wng))
  IN  CASE type = "chinese"      -> Words \o Correct
        [] type = "chinesespell" -> Words \o Mixed \o Correct
        [] type = "spell"        -> Letters(key, key) \o SpellSimple
        [] type = "spellnum"     -> Letters(key, key)
        [] type = "ninegrid"     -> Both(Spelt(MATCH_CATEGORY_NINEGRIDKEY, key, key))
        [] type = "number"       -> Words
        [] type = "withdot"      -> Letters(DotKey(key), DotSimple(key))
        [] OTHER                 -> <<>>

-----------------------------------------------------------------------------
(***************************************************************************)
(* SearchResult.  tasks are the loaded ones, [name, tree, data] in order:  *)
(* their trees by type, the node data of dict.00.  The current ones are    *)
(* that of the request and the second one of its name; without a prefix    *)
(* they are not among all.  The result is what each category found, in the *)
(* order of the categories, <<task, line>>.                                *)
(*                                                                         *)
(* SearchEach: of a list of categories what each finds.                    *)
(***************************************************************************)
SearchEach(list, r, left, tasks) ==
  LET own   == {i \in DOMAIN tasks : tasks[i].name \in {r.x, Second(r.x)}}
      every == IF r.p = <<>> THEN DOMAIN tasks \ own ELSE DOMAIN tasks
      Of(c) == IF c.all \/ Switch(r.mat) THEN every ELSE own
      flags == 0 .. NUMBER_MAX_FLAG_LIMIT
      good  == IF WithFlag(r) THEN {f \in flags : IsGoodFlag(r, left, f)} ELSE flags
      Take(t, S) == [i \in S |-> tasks[i].tree[t]]
      q(c)  == [pre |-> r.p, nul |-> ToInt(r.pns, 0, NUMBER_MAX_RETURN_LIMIT, 0), key |-> c.key, same |-> Switch(r.sl)]
      To(c) == IF c.match \in {MATCH_CATEGORY_MIXEDSS, MATCH_CATEGORY_MIXEDCS} THEN GetSpellTreeFromSimple(c.tree) ELSE c.tree
      Do(c) == IF ~c.all /\ Of(c) = {} THEN NothingFound
               ELSE SearchCategory(c.match, c.all \/ r.p = <<>>, q(c), Take(c.tree, Of(c)),
                                   Take(To(c), Of(c)), [i \in Of(c) |-> tasks[i].data], good)
  IN  [i \in DOMAIN list |-> Do(list[i])]

\* The categories of the request.
SearchResult(r, left, tasks) == SearchEach(Categories(r), r, left, tasks)
=============================================================================
