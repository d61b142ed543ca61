----------------------------- MODULE FilesClient -----------------------------
(***************************************************************************)
(* What Files (index.ts) does around the adapter: the prefix that is put   *)
(* before a caller's keys and taken off again, search(), and the requests, *)
(* results and hooks of a call for one key or for many.                    *)
(*                                                                         *)
(* The operators are pure; the named assumptions at the end of each part   *)
(* compare them with what the callers should see, for every small input.   *)
(***************************************************************************)
EXTENDS Integers, Sequences, FiniteSets, SequencesExt

(***************************************************************************)
(* Keys and paths.  What matters of a key is where its slashes and its     *)
(* relative segments are: it is a sequence of slashes, dots (".", a        *)
(* relative segment if it stands alone between slashes) and letters.       *)
(***************************************************************************)

Slash == "/"
Dot == "."
Texts(n) == UNION {[1 .. m -> {Slash, Dot, "a"}] : m \in 0 .. n}

\* assertValidKey() and assertNoRelativeSegments()
Valid(text) == text # <<>>
IsRelative(text) ==
    \E i \in DOMAIN text : /\ text[i] = Dot
                           /\ i = 1 \/ text[i - 1] = Slash
                           /\ i = Len(text) \/ text[i + 1] = Slash

\* A key without its leading slashes, a prefix without its trailing ones as well.
Leading(text) ==
    CHOOSE n \in 0 .. Len(text) : /\ \A i \in 1 .. n : text[i] = Slash
                                  /\ n < Len(text) => text[n + 1] # Slash
Unled(text) == SubSeq(text, Leading(text) + 1, Len(text))
Untrailed(text) == SubSeq(text, 1, SelectLastInSeq(text, LAMBDA c : c # Slash))

\* normalizePrefix(), where it does not throw; a client without a prefix has <<>>.
NormalizePrefix(prefix) == Untrailed(Unled(prefix))
IsPrefixOption(prefix) ==
    Valid(NormalizePrefix(prefix)) /\ ~IsRelative(NormalizePrefix(prefix))

\* #path
Accepts(base, key) == Valid(key) /\ (base # <<>> => ~IsRelative(Unled(key)))
PathOfKey(base, key) == IF base = <<>> THEN key ELSE base \o <<Slash>> \o Unled(key)

\* #stripPrefix, which #storedFile and #uploadResult apply to keys and #performList
\* to folders.
StripPrefix(base, path) ==
    LET scoped == base \o <<Slash>>
    IN  IF base # <<>> /\ IsPrefix(scoped, path)
          THEN SubSeq(path, Len(scoped) + 1, Len(path)) ELSE path

\* #performList: what the provider is asked for, and what the caller is shown.
ListPrefix(base, asked) ==
    CASE base = <<>> -> asked
      [] asked = <<>> -> base \o <<Slash>>
      [] OTHER -> base \o <<Slash>> \o Unled(asked)
Listed(base, asked, objects) ==
    {StripPrefix(base, p) : p \in {p \in objects : IsPrefix(ListPrefix(base, asked), p)}}

KeyLength == 4
Clients == {NormalizePrefix(p) : p \in {p \in Texts(3) : IsPrefixOption(p)}}

\* A prefix is one however it is spelled, and keeps its keys: what a client with a
\* prefix writes lies below it, past exactly one slash, and a client with another
\* prefix sees it only if that prefix leads there (a sibling that begins alike does not).
ASSUME ClientsStayApart ==
    /\ \A p \in Texts(3) : IsPrefixOption(p) =>
          \A q \in {<<Slash>> \o p, p \o <<Slash>>, <<Slash>> \o p \o <<Slash>>} :
             IsPrefixOption(q) /\ NormalizePrefix(q) = NormalizePrefix(p)
    /\ \A base \in Clients, key \in Texts(KeyLength) : Accepts(base, key) =>
          LET path == PathOfKey(base, key)
          IN  /\ IsPrefix(base \o <<Slash>>, path) /\ ~IsRelative(path)
              /\ Len(path) > Len(base) + 1 => path[Len(base) + 2] # Slash
              /\ \A other \in Clients : Listed(other, <<>>, {path}) # {} =>
                    IsPrefix(other \o <<Slash>>, base \o <<Slash>>)
                    \/ IsPrefix(base \o <<Slash>>, other \o <<Slash>>)

\* What is stored under a key is shown under that key without its leading slashes, and
\* the key shown leads to the same object.  A key of slashes alone is the exception: the
\* object at the prefix itself, shown under the empty key, which no call accepts.
ASSUME KeysComeBack ==
    \A base \in Clients, key \in Texts(KeyLength) : Accepts(base, key) =>
        LET path == PathOfKey(base, key)
            shown == StripPrefix(base, path)
        IN  /\ shown = Unled(key)
            /\ Accepts(base, shown) <=> Unled(key) # <<>>
            /\ Accepts(base, shown) => PathOfKey(base, shown) = path

\* list() of a client shows the keys that begin with the prefix asked for, no others;
\* a slash at its beginning makes no difference.
ASSUME ListsAreScoped ==
    \A base \in Clients, key \in Texts(3), asked \in Texts(3) : Accepts(base, key) =>
        Listed(base, asked, {PathOfKey(base, key)}) =
            IF IsPrefix(Unled(asked), Unled(key)) THEN {Unled(key)} ELSE {}

\* Objects that others wrote below the prefix are listed too.  The key shown leads back
\* to the object unless it begins with a slash, is empty, or has a relative segment: of
\* these the first is taken for another object's, the others are refused.
ASSUME ForeignKeys ==
    \A base \in Clients, rest \in Texts(3) :
        LET path == base \o <<Slash>> \o rest
            shown == StripPrefix(base, path)
        IN  /\ shown = rest /\ Listed(base, <<>>, {path}) = {rest}
            /\ (Accepts(base, shown) /\ PathOfKey(base, shown) = path)
                 <=> rest # <<>> /\ rest[1] # Slash /\ ~IsRelative(rest)

(***************************************************************************)
(* search().  A file has the segments of its key, and the place in its key *)
(* at which a regular expression matches it, or none.  A pattern is a      *)
(* regular expression, which may be global or sticky, or a glob: segments  *)
(* of which "*" stands for one and "**" for any number.                    *)
(***************************************************************************)

NoPlace == 0

\* A glob's segments against a key's, from the end of both.
GlobMatches(glob, key) ==
    LET M[g \in 0 .. Len(glob), k \in 0 .. Len(key)] ==
            CASE g = 0 -> k = 0
              [] glob[g] = "**" -> M[g - 1, k] \/ (k > 0 /\ M[g, k - 1])
              [] OTHER -> k > 0 /\ glob[g] \in {"*", key[k]} /\ M[g - 1, k - 1]
    IN  M[Len(glob), Len(key)]

\* globPrefix(): the segments before the first wildcard.
GlobPrefix(glob) ==
    SubSeq(glob, 1, SelectInSeq(glob \o <<"*">>, LAMBDA s : s \in {"*", "**"}) - 1)

\* RegExp.test() of a matcher that is kept between the keys: a global or sticky one
\* begins where it left off, and at the beginning again once it failed.
Tested(flag, place, from) ==
    CASE flag = "none" -> place # NoPlace
      [] flag = "global" -> place # NoPlace /\ place > from
      [] flag = "sticky" -> place = from + 1

\* search() over the files of a walk.
Search(files, flag, maxResults) ==
    FoldLeft(LAMBDA found, file :
                IF Len(found.yielded) >= maxResults THEN found
                ELSE IF Tested(flag, file, found.from)
                  THEN [yielded |-> Append(found.yielded, file),
                        from |-> IF flag = "none" THEN 0 ELSE file]
                ELSE [found EXCEPT !.from = 0],
             [yielded |-> <<>>, from |-> 0], files).yielded

Walks == UNION {[1 .. n -> NoPlace .. 2] : n \in 0 .. 4}
Globs == UNION {[1 .. n -> {"a", "b", "*", "**"}] : n \in 1 .. 3}
Segments == UNION {[1 .. n -> {"a", "b"}] : n \in 1 .. 3}

\* The prefix that a glob's search asks the provider for loses no match.
ASSUME PushdownLosesNothing ==
    \A glob \in Globs, key \in Segments :
        GlobMatches(glob, key) => IsPrefix(GlobPrefix(glob), key)

\* A search finds every match, in order, up to maxResults.  That is not so for a
\* RegExp with the g or y flag: of keys that match it, some are passed over, though
\* none is shown that does not match.
ASSUME SearchesFind ==
    /\ \A files \in Walks, max \in 1 .. 4 :
          LET matches == SelectSeq(files, LAMBDA f : f # NoPlace)
          IN  /\ Search(files, "none", max) =
                    SubSeq(matches, 1, IF max < Len(matches) THEN max ELSE Len(matches))
              /\ \A flag \in {"global", "sticky"} :
                    NoPlace \notin Range(Search(files, flag, max))
    /\ Search(<<1, 1>>, "global", 4) = <<1>>

(***************************************************************************)
(* One call: #action and #writeAction around #run, and the array forms.    *)
(* What the provider answers to the attempts at an item is a sequence.     *)
(***************************************************************************)

Answers == {"ok", "missing", "Provider"}
WriteActions == {"upload", "delete"}
BulkVerbs == {"upload", "download", "head", "exists", "delete"}

\* maxRetries() in #run: a stream is sent once, and of the array forms only upload's
\* items reach #run as retryable; they have no context, hence no onRetry.
RetriesOf(verb, many, stream, retries) ==
    CASE verb = "upload" -> IF stream THEN 0 ELSE retries
      [] many -> 0
      [] OTHER -> retries

\* The attempt that ends #run: the first not answered by a provider's failure.
LastAttempt(answers, retries) ==
    LET ends == {n \in 1 .. retries + 1 : n = retries + 1 \/ answers[n] # "Provider"}
    IN  CHOOSE n \in ends : \A m \in ends : n <= m

\* A missing key is what exists() asks about, no failure.
Failed(verb, answer) ==
    answer = "Provider" \/ (answer = "missing" /\ verb # "exists")

\* upload(key, ...), head(key, ...) and the others: requests sent and hooks called.
CallOne(verb, readOnly, stream, retries, answers) ==
    LET last == LastAttempt(answers, RetriesOf(verb, FALSE, stream, retries))
        refused == readOnly /\ verb \in WriteActions
        fails == refused \/ Failed(verb, answers[last])
        onRetry == [n \in 1 .. last - 1 |-> "onRetry"]
    IN  [requests |-> IF refused THEN 0 ELSE last,
         hooks |-> (IF refused THEN <<>> ELSE onRetry)
                     \o (IF fails THEN <<"onError">> ELSE <<>>) \o <<"onAction">>,
         rejects |-> fails]

\* upload([...]), head([...]) and the others.  The items are settled by mapMany(), one
\* after the other under stopOnError; existsMany() sorts what it got in two.
CallMany(verb, readOnly, stream, retries, stopOnError, items) ==
    LET last(i) == LastAttempt(items[i], RetriesOf(verb, TRUE, stream, retries))
        failed == {i \in DOMAIN items : Failed(verb, items[i][last(i)])}
        refused == readOnly /\ verb \in WriteActions
        tried == {i \in DOMAIN items : ~refused
                    /\ (stopOnError => \A j \in failed : i <= j)}
        InOrder(s) == SetToSortSeq(s, <)
        Found(i) == items[i][last(i)] = "ok"
    IN  [requests |-> [i \in tried |-> last(i)],
         hooks |-> IF refused THEN <<"onError", "onAction">> ELSE <<"onAction">>,
         rejects |-> refused,
         results |-> InOrder(IF verb = "exists" THEN {i \in tried \ failed : Found(i)}
                             ELSE tried \ failed),
         missing |-> InOrder(IF verb = "exists" THEN {i \in tried \ failed : ~Found(i)}
                             ELSE {}),
         errors |-> InOrder(tried \cap failed)]

\* What a provider may answer to two attempts at each of up to three items.
AnswersOf(n) == [1 .. n -> [1 .. 2 -> Answers]]

\* Every call ends in one onAction, before it one onError just if it rejects, and before
\* that one onRetry for each request but the first.  A stream is sent once.  Nothing is
\* written through a read-only instance.
ASSUME CallsAreReported ==
    \A verb \in BulkVerbs, readOnly, stream \in BOOLEAN, retries \in {0, 1} :
    \A answers \in [1 .. 2 -> Answers] :
        LET call == CallOne(verb, readOnly, stream, retries, answers)
            Count(hook) == Cardinality({i \in DOMAIN call.hooks : call.hooks[i] = hook})
        IN  /\ Last(call.hooks) = "onAction" /\ Count("onAction") = 1
            /\ Count("onError") = IF call.rejects THEN 1 ELSE 0
            /\ Count("onRetry") = IF call.requests = 0 THEN 0 ELSE call.requests - 1
            /\ verb \in WriteActions /\ readOnly => call.requests = 0 /\ call.rejects
            /\ verb = "upload" /\ stream => call.requests <= 1
            /\ verb = "exists" /\ answers[1] = "missing" => ~call.rejects
            /\ call.requests = 2 <=>
                  /\ answers[1] = "Provider" /\ retries = 1
                  /\ ~(verb = "upload" /\ stream) /\ ~(readOnly /\ verb \in WriteActions)

\* A call for many keys resolves, whatever fails, unless the instance is read-only.  Each
\* key is in one list, in the caller's order, and stands there for what a call for it
\* alone would have answered; under stopOnError it is the keys up to the first failure.
\* An item costs one request, but that uploads are retried, without an onRetry.
ASSUME ManyIsEachOnce ==
    \A verb \in BulkVerbs, readOnly, stream, stopOnError \in BOOLEAN, retries \in {0, 1} :
    \A n \in 0 .. 3 : \A items \in AnswersOf(n) :
        LET call == CallMany(verb, readOnly, stream, retries, stopOnError, items)
            retried == IF verb = "upload" THEN retries ELSE 0
            Alone(i) == CallOne(verb, readOnly, stream, retried, items[i])
            lists == {call.results, call.missing, call.errors}
        IN  IF readOnly /\ verb \in WriteActions
              THEN call.rejects /\ DOMAIN call.requests = {}
            ELSE /\ ~call.rejects /\ call.hooks = <<"onAction">>
                 /\ \A list \in lists : \A i, j \in DOMAIN list : i < j => list[i] < list[j]
                 /\ \A i \in DOMAIN call.requests :
                       /\ call.requests[i] = Alone(i).requests
                       /\ Alone(i).rejects <=> i \in Range(call.errors)
                       /\ Cardinality({l \in {"results", "missing", "errors"} :
                                          i \in Range(call[l])}) = 1
                 /\ DOMAIN call.requests =
                       {i \in 1 .. n : stopOnError => \A j \in 1 .. i - 1 : ~Alone(j).rejects}
=============================================================================
