------------------------- MODULE RestConfigsProofs -------------------------
(***************************************************************************)
(* Theorems about RestConfigs: paths lead where they were built for, for   *)
(* every choice of ids, and the store behind the front implements          *)
(* PushConfigs.                                                            *)
(***************************************************************************)
EXTENDS RestConfigs, PushConfigsProofs

-----------------------------------------------------------------------------
(***************************************************************************)
(* Routes.                                                                 *)
(***************************************************************************)
Words == {TasksRoot} \cup Separators

LEMMA WordsDiffer ==
  /\ TasksRoot \notin Separators
  /\ Slash # ConfigsWord /\ Slash # CancelSuffix /\ Slash # SubscribeSuffix
  /\ ConfigsWord # CancelSuffix /\ ConfigsWord # SubscribeSuffix
  /\ CancelSuffix # SubscribeSuffix
BY DEF TasksRoot, Separators, Slash, ConfigsWord, CancelSuffix, SubscribeSuffix

\* The first place a pattern is found at.
LEMMA IndexIs ==
  ASSUME NEW s, NEW pat, NEW i \in 1..Len(s), Len(s) \in Nat, At(s, pat, i),
         \A j \in 1..(i - 1) : ~At(s, pat, j)
  PROVE  Contains(s, pat) /\ Index(s, pat) = i
<1> DEFINE P(k) == At(s, pat, k) /\ \A j \in 1..(k - 1) : ~At(s, pat, j)
<1>1. P(i)
  OBVIOUS
<1>2. \A k \in 1..Len(s) : P(k) => k = i
  OBVIOUS
<1> HIDE DEF P
<1>3. (CHOOSE k \in 1..Len(s) : P(k)) = i
  BY <1>1, <1>2
<1> QED
  BY <1>3 DEF Index, Contains, P

\* The path of a task, and what follows the root of it.
LEMMA TaskPath ==
  ASSUME NEW w, NEW E, {w} \cup Words \subseteq E
  PROVE  /\ OnTask(<<w>>) \in Seq(E) /\ Len(OnTask(<<w>>)) = 3
         /\ OnTask(<<w>>)[1] = TasksRoot /\ OnTask(<<w>>)[2] = Slash
         /\ OnTask(<<w>>)[3] = w
<1> DEFINE root == <<TasksRoot, Slash>>
           one == <<w>>
<1>1. root \in Seq(E) /\ Len(root) = 2 /\ root[1] = TasksRoot /\ root[2] = Slash
  BY DEF Words, Separators
<1>2. one \in Seq(E) /\ Len(one) = 1 /\ one[1] = w
  OBVIOUS
<1> DEFINE task == OnTask(<<w>>)
<1>3. task = root \o one
  BY DEF OnTask
<1> HIDE DEF root, one, task
<1>4. /\ task \in Seq(E) /\ Len(task) = Len(root) + Len(one)
      /\ \A i \in 1..(Len(root) + Len(one)) :
           task[i] = IF i <= Len(root) THEN root[i] ELSE one[i - Len(root)]
  BY <1>1, <1>2, <1>3, ConcatProperties
<1>5. task[1] = root[1] /\ task[2] = root[2] /\ task[3] = one[1]
  BY <1>1, <1>2, <1>4
<1>6. /\ task \in Seq(E) /\ Len(task) = 3
      /\ task[1] = TasksRoot /\ task[2] = Slash /\ task[3] = w
  BY <1>1, <1>2, <1>4, <1>5
<1> QED
  BY <1>6 DEF task

\* That path with more after it, and what Rest keeps of it.
Leads(w, E, more, path, rest) ==
  /\ path \in Seq(E) /\ Len(path) = 3 + Len(more) /\ Len(more) \in Nat
  /\ path[1] = TasksRoot /\ path[2] = Slash /\ path[3] = w
  /\ \A i \in 1..Len(more) : path[3 + i] = more[i]
  /\ rest \in Seq(E) /\ Len(rest) = 1 + Len(more)
  /\ rest[1] = w
  /\ \A i \in 1..Len(more) : rest[1 + i] = more[i]
  /\ SubSeq(rest, 1, 1) = <<w>>

LEMMA LongerPath ==
  ASSUME NEW w, NEW E, {w} \cup Words \subseteq E, NEW more \in Seq(E)
  PROVE  Leads(w, E, more, OnTask(<<w>>) \o more, Rest(OnTask(<<w>>) \o more))
<1> DEFINE task == OnTask(<<w>>)
           path == task \o more
           rest == Rest(path)
<1>0. /\ task \in Seq(E) /\ Len(task) = 3
      /\ task[1] = TasksRoot /\ task[2] = Slash /\ task[3] = w
  BY TaskPath
<1> HIDE DEF task
<1>1. /\ path \in Seq(E) /\ Len(path) = 3 + Len(more) /\ Len(more) \in Nat
      /\ path[1] = TasksRoot /\ path[2] = Slash /\ path[3] = w
      /\ \A i \in 1..Len(more) : path[3 + i] = more[i]
  <2>1. Len(more) \in Nat
    BY LenProperties
  <2>2. /\ path \in Seq(E) /\ Len(path) = 3 + Len(more)
        /\ \A i \in 1..(3 + Len(more)) :
             path[i] = IF i <= 3 THEN task[i] ELSE more[i - 3]
    <3>1. /\ path \in Seq(E) /\ Len(path) = Len(task) + Len(more)
          /\ \A i \in 1..(Len(task) + Len(more)) :
               path[i] = IF i <= Len(task) THEN task[i] ELSE more[i - Len(task)]
      BY <1>0, ConcatProperties
    <3> QED
      BY <1>0, <3>1
  <2> HIDE DEF path
  <2>3. /\ path[1] = task[1] /\ path[2] = task[2] /\ path[3] = task[3]
    BY <2>1, <2>2
  <2>4. ASSUME NEW i \in 1..Len(more) PROVE path[3 + i] = more[i]
    <3>1. 3 + i \in 1..(3 + Len(more)) /\ ~(3 + i <= 3) /\ (3 + i) - 3 = i
      BY <2>1
    <3> QED
      BY <2>2, <3>1
  <2> QED
    BY <1>0, <2>1, <2>2, <2>3, <2>4
<1> HIDE DEF path
<1>2. \A i \in 3..Len(path) : path[i] \in E
  BY <1>1, ElementOfSeq
<1>3. /\ rest \in Seq(E) /\ Len(rest) = 1 + Len(more)
      /\ \A i \in 1..(1 + Len(more)) : rest[i] = path[3 + i - 1]
  BY <1>1, <1>2, SubSeqProperties DEF Rest
<1> HIDE DEF rest
<1>4. rest[1] = w
  BY <1>1, <1>3
<1>5. ASSUME NEW i \in 1..Len(more) PROVE rest[1 + i] = more[i]
  <2>1. 3 + (1 + i) - 1 = 3 + i /\ 1 + i \in 1..(1 + Len(more))
    BY <1>1
  <2> QED
    BY <1>1, <1>3, <2>1
<1>6. SubSeq(rest, 1, 1) = <<w>>
  <2>1. \A i \in 1..1 : rest[i] \in E
    BY <1>4
  <2>2. /\ SubSeq(rest, 1, 1) \in Seq(E) /\ Len(SubSeq(rest, 1, 1)) = 1
        /\ SubSeq(rest, 1, 1)[1] = w
    BY <1>4, <2>1, SubSeqProperties
  <2> DEFINE one == <<w>>
             sub == SubSeq(rest, 1, 1)
  <2>3. one \in Seq(E) /\ Len(one) = 1 /\ one[1] = w
    OBVIOUS
  <2> HIDE DEF one, sub
  <2>4. sub = one
    BY <2>2, <2>3, SeqEqual DEF sub
  <2> QED
    BY <2>4 DEF one, sub
<1>7. Leads(w, E, more, path, rest)
  BY <1>1, <1>3, <1>4, <1>5, <1>6 DEF Leads
<1> QED
  BY <1>7 DEF path, rest, task

\* What follows a task's path when a config is named.
LEMMA InfixAndId ==
  ASSUME NEW E, Words \subseteq E, NEW c \in Seq(E)
  PROVE  LET more == ConfigsInfix \o c
         IN  /\ more \in Seq(E) /\ Len(more) = 3 + Len(c) /\ Len(c) \in Nat
             /\ more[1] = Slash /\ more[2] = ConfigsWord /\ more[3] = Slash
             /\ \A i \in 1..Len(c) : more[3 + i] = c[i]
<1> DEFINE infix == ConfigsInfix
           more == infix \o c
<1>1. /\ infix \in Seq(E) /\ Len(infix) = 3
      /\ infix[1] = Slash /\ infix[2] = ConfigsWord /\ infix[3] = Slash
  BY DEF ConfigsInfix, Words, Separators
<1>2. Len(c) \in Nat
  BY LenProperties
<1> HIDE DEF infix
<1>3. /\ more \in Seq(E) /\ Len(more) = Len(infix) + Len(c)
      /\ \A i \in 1..(Len(infix) + Len(c)) :
           more[i] = IF i <= Len(infix) THEN infix[i] ELSE c[i - Len(infix)]
  BY <1>1, ConcatProperties
<1> HIDE DEF more
<1>4. more[1] = infix[1] /\ more[2] = infix[2] /\ more[3] = infix[3]
  BY <1>1, <1>2, <1>3
<1>5. ASSUME NEW i \in 1..Len(c) PROVE more[3 + i] = c[i]
  <2>1. 3 + i \in 1..(3 + Len(c)) /\ ~(3 + i <= 3) /\ (3 + i) - 3 = i
    BY <1>2
  <2> QED
    BY <1>1, <1>3, <2>1
<1>6. /\ more \in Seq(E) /\ Len(more) = 3 + Len(c)
      /\ more[1] = Slash /\ more[2] = ConfigsWord /\ more[3] = Slash
  BY <1>1, <1>3, <1>4
<1> QED
  BY <1>2, <1>5, <1>6 DEF more, infix

\* The path of one config of a task leads to that config, whatever words its
\* id is made of: the first infix is the one after the task.
LEMMA ConfigRoute ==
  ASSUME NEW w, w \notin Separators, NEW S, NEW c \in Seq(S),
         NEW op \in {"get", "delete"}
  PROVE  /\ Dispatch(Verb(op), Path(op, <<w>>, c)) = Target(op, <<w>>, c)
         /\ Path(op, <<w>>, c)[1] = TasksRoot /\ Len(Path(op, <<w>>, c)) \in Nat
<1> DEFINE E == {w} \cup Words \cup S
           more == ConfigsInfix \o c
           path == OnTask(<<w>>) \o more
           rest == Rest(path)
<1>0. c \in Seq(E) /\ {w} \cup Words \subseteq E
  OBVIOUS
<1>1. /\ more \in Seq(E) /\ Len(more) = 3 + Len(c) /\ Len(c) \in Nat
      /\ more[1] = Slash /\ more[2] = ConfigsWord /\ more[3] = Slash
      /\ \A i \in 1..Len(c) : more[3 + i] = c[i]
  BY <1>0, InfixAndId
<1> HIDE DEF more, E
<1>r. Leads(w, E, more, path, rest)
  BY <1>0, <1>1, LongerPath
<1> HIDE DEF path, rest
<1>2. /\ path \in Seq(E) /\ Len(path) = 3 + Len(more)
      /\ path[1] = TasksRoot /\ path[2] = Slash /\ path[3] = w
      /\ \A i \in 1..Len(more) : path[3 + i] = more[i]
      /\ rest \in Seq(E) /\ Len(rest) = 1 + Len(more)
      /\ rest[1] = w
      /\ \A i \in 1..Len(more) : rest[1 + i] = more[i]
      /\ SubSeq(rest, 1, 1) = <<w>>
  BY <1>r DEF Leads
<1>3. Path(op, <<w>>, c) = path
  BY DEF Path, path, more
<1>4. At(path, ConfigsInfix, 4)
  <2>1. path[3 + 1] = Slash /\ path[3 + 2] = ConfigsWord /\ path[3 + 3] = Slash
    BY <1>1, <1>2
  <2> QED
    BY <1>1, <1>2, <2>1 DEF At, ConfigsInfix
<1>5. Contains(path, ConfigsInfix)
  BY <1>1, <1>2, <1>4 DEF Contains
<1>6. path # <<TasksRoot>>
  <2> DEFINE root == <<TasksRoot>>
  <2>1. Len(root) = 1 /\ Len(path) # 1
    BY <1>1, <1>2
  <2> HIDE DEF root
  <2>2. path # root
    BY <2>1
  <2> QED
    BY <2>2 DEF root
<1>7. At(rest, ConfigsInfix, 2)
  <2>1. rest[1 + 1] = Slash /\ rest[1 + 2] = ConfigsWord /\ rest[1 + 3] = Slash
    BY <1>1, <1>2
  <2>2. Len(ConfigsInfix) = 3 /\ 2 + 3 <= Len(rest) + 1
    BY <1>1, <1>2 DEF ConfigsInfix
  <2>3. ASSUME NEW k \in 1..3 PROVE rest[2 + k - 1] = ConfigsInfix[k]
    <3>1. k = 1 \/ k = 2 \/ k = 3
      OBVIOUS
    <3> QED
      BY <2>1, <3>1 DEF ConfigsInfix
  <2> QED
    BY <2>2, <2>3 DEF At
<1>8. ~At(rest, ConfigsInfix, 1)
  <2>1. At(rest, ConfigsInfix, 1) => rest[1] = Slash
    BY DEF At, ConfigsInfix
  <2>2. rest[1] # Slash
    BY <1>2 DEF Separators
  <2> QED
    BY <2>1, <2>2
<1>9. Contains(rest, ConfigsInfix) /\ Index(rest, ConfigsInfix) = 2
  <2>1. 2 \in 1..Len(rest) /\ Len(rest) \in Nat
    BY <1>1, <1>2
  <2>2. \A j \in 1..(2 - 1) : ~At(rest, ConfigsInfix, j)
    BY <1>8
  <2> QED
    BY <1>7, <2>1, <2>2, IndexIs
<1>10. Before(rest, ConfigsInfix) = <<w>>
  BY <1>2, <1>9 DEF Before
<1>11. Behind(rest, ConfigsInfix) = c
  <2> DEFINE behind == SubSeq(rest, 5, Len(rest))
  <2>1. Behind(rest, ConfigsInfix) = behind
    BY <1>9 DEF Behind, ConfigsInfix
  <2>2. \A i \in 5..Len(rest) : rest[i] \in E
    BY <1>2, ElementOfSeq
  <2>3. /\ behind \in Seq(E) /\ Len(behind) = Len(c)
        /\ \A i \in 1..Len(c) : behind[i] = rest[5 + i - 1]
    BY <1>1, <1>2, <2>2, SubSeqProperties
  <2>4. ASSUME NEW i \in 1..Len(c) PROVE behind[i] = c[i]
    <3>1. 5 + i - 1 = 1 + (3 + i) /\ 3 + i \in 1..Len(more)
      BY <1>1
    <3>2. behind[i] = rest[5 + i - 1]
      BY <2>3
    <3>3. rest[1 + (3 + i)] = more[3 + i]
      BY <1>2, <3>1
    <3>4. more[3 + i] = c[i]
      BY <1>1
    <3> QED
      BY <3>1, <3>2, <3>3, <3>4
  <2> HIDE DEF behind
  <2> QED
    BY <1>0, <2>1, <2>3, <2>4, SeqEqual
<1>12. OneConfig(op, rest) = Target(op, <<w>>, c)
  BY <1>9, <1>10, <1>11 DEF OneConfig
<1>13. Subroute(Verb(op), path, rest) = OneConfig(op, rest)
  BY <1>5 DEF Subroute, ByVerb, Verb
<1> QED
  BY <1>1, <1>2, <1>3, <1>6, <1>12, <1>13 DEF Dispatch, rest

\* The path of all configs of a task.
LEMMA ConfigsRoute ==
  ASSUME NEW w, w \notin Separators, NEW op \in {"set", "list"}
  PROVE  /\ Dispatch(Verb(op), Path(op, <<w>>, Nothing)) = Target(op, <<w>>, Nothing)
         /\ Path(op, <<w>>, Nothing)[1] = TasksRoot
         /\ Len(Path(op, <<w>>, Nothing)) \in Nat
<1> DEFINE E == {w} \cup Words
           more == ConfigsPart
           path == OnTask(<<w>>) \o more
           rest == Rest(path)
<1>1. more \in Seq(E) /\ Len(more) = 2 /\ more[1] = Slash /\ more[2] = ConfigsWord
  BY DEF ConfigsPart, Words, Separators
<1>2. {w} \cup Words \subseteq E
  OBVIOUS
<1>3. Path(op, <<w>>, Nothing) = path
  BY DEF Path
<1> HIDE DEF E, more
<1>4. Leads(w, E, more, path, rest)
  BY <1>1, <1>2, LongerPath
<1> HIDE DEF path, rest
<1>5. /\ Len(path) = 5 /\ path[1] = TasksRoot /\ path[2] = Slash /\ path[3] = w
      /\ path[4] = Slash /\ path[5] = ConfigsWord
  <2>1. path[3 + 1] = more[1] /\ path[3 + 2] = more[2]
    BY <1>1, <1>4 DEF Leads
  <2> QED
    BY <1>1, <1>4, <2>1 DEF Leads
<1>6. /\ Len(rest) = 3 /\ rest[1] = w /\ rest[2] = Slash /\ rest[3] = ConfigsWord
      /\ SubSeq(rest, 1, 1) = <<w>>
  <2>1. rest[1 + 1] = more[1] /\ rest[1 + 2] = more[2]
    BY <1>1, <1>4 DEF Leads
  <2> QED
    BY <1>1, <1>4, <2>1 DEF Leads
<1>7. ~Contains(path, ConfigsInfix)
  <2> SUFFICES ASSUME NEW i \in 1..Len(path), At(path, ConfigsInfix, i) PROVE FALSE
    BY DEF Contains
  <2>1. i \in 1..3
    BY <1>5 DEF At, ConfigsInfix
  <2>2. i # 1
    BY <1>5, WordsDiffer DEF At, ConfigsInfix, Separators
  <2>3. i # 2
    BY <1>5 DEF At, ConfigsInfix, Separators
  <2>4. i # 3
    BY <1>5 DEF At, ConfigsInfix, Separators
  <2> QED
    BY <2>1, <2>2, <2>3, <2>4
<1>8. HasSuffix(path, ConfigsPart)
  BY <1>5 DEF HasSuffix, At, ConfigsPart
<1>9. At(rest, ConfigsPart, 2) /\ ~At(rest, ConfigsPart, 1)
  BY <1>6 DEF At, ConfigsPart, Separators
<1>10. Contains(rest, ConfigsPart) /\ Index(rest, ConfigsPart) = 2
  <2>1. 2 \in 1..Len(rest) /\ Len(rest) \in Nat
    BY <1>6
  <2>2. \A j \in 1..(2 - 1) : ~At(rest, ConfigsPart, j)
    BY <1>9
  <2> QED
    BY <1>9, <2>1, <2>2, IndexIs
<1>11. OneTask(op, rest, ConfigsPart) = Target(op, <<w>>, Nothing)
  <2>1. Before(rest, ConfigsPart) = <<w>>
    BY <1>6, <1>10 DEF Before
  <2> QED
    BY <1>10, <2>1 DEF OneTask
<1>12. Subroute(Verb(op), path, rest) = OneTask(op, rest, ConfigsPart)
  BY <1>7, <1>8 DEF Subroute, ByVerb, Verb
<1>13. path # <<TasksRoot>>
  <2> DEFINE root == <<TasksRoot>>
  <2>1. Len(root) = 1 /\ Len(path) # 1
    BY <1>5
  <2> HIDE DEF root
  <2>2. path # root
    BY <2>1
  <2> QED
    BY <2>2 DEF root
<1> QED
  BY <1>3, <1>5, <1>11, <1>12, <1>13 DEF Dispatch, rest

\* The paths of an action on a task.
LEMMA ActionRoute ==
  ASSUME NEW w, w \notin Separators, NEW op \in {"cancel", "subscribe"}
  PROVE  /\ Dispatch(Verb(op), Path(op, <<w>>, Nothing)) = Target(op, <<w>>, Nothing)
         /\ Path(op, <<w>>, Nothing)[1] = TasksRoot
         /\ Len(Path(op, <<w>>, Nothing)) \in Nat
<1> DEFINE E == {w} \cup Words
           suffix == IF op = "cancel" THEN CancelSuffix ELSE SubscribeSuffix
           more == <<suffix>>
           path == OnTask(<<w>>) \o more
           rest == Rest(path)
<1>1. more \in Seq(E) /\ Len(more) = 1 /\ more[1] = suffix /\ suffix \in Separators
  BY DEF Words, Separators
<1>2. {w} \cup Words \subseteq E
  OBVIOUS
<1>3. Path(op, <<w>>, Nothing) = path
  BY DEF Path
<1>s. suffix # ConfigsWord /\ suffix # Slash
  BY WordsDiffer
<1> HIDE DEF E, more
<1>4. Leads(w, E, more, path, rest)
  BY <1>1, <1>2, LongerPath
<1> HIDE DEF path, rest
<1>5. /\ Len(path) = 4 /\ path[1] = TasksRoot /\ path[2] = Slash /\ path[3] = w
      /\ path[4] = suffix
  <2>1. path[3 + 1] = more[1]
    BY <1>1, <1>4 DEF Leads
  <2> QED
    BY <1>1, <1>4, <2>1 DEF Leads
<1>6. /\ Len(rest) = 2 /\ rest[1] = w /\ rest[2] = suffix
      /\ SubSeq(rest, 1, 1) = <<w>>
  <2>1. rest[1 + 1] = more[1]
    BY <1>1, <1>4 DEF Leads
  <2> QED
    BY <1>1, <1>4, <2>1 DEF Leads
<1>7. ~Contains(path, ConfigsInfix)
  <2> SUFFICES ASSUME NEW i \in 1..Len(path), At(path, ConfigsInfix, i) PROVE FALSE
    BY DEF Contains
  <2>1. i \in 1..2
    BY <1>5 DEF At, ConfigsInfix
  <2>2. i # 1
    BY <1>5, WordsDiffer DEF At, ConfigsInfix, Separators
  <2>3. i # 2
    BY <1>5 DEF At, ConfigsInfix, Separators
  <2> QED
    BY <2>1, <2>2, <2>3
<1>8. ~HasSuffix(path, ConfigsPart)
  BY <1>5 DEF HasSuffix, At, ConfigsPart, Separators
<1>9. HasSuffix(path, <<suffix>>)
  <2> HIDE DEF suffix
  <2> QED
    BY <1>5 DEF HasSuffix, At
<1>10. op = "cancel" => ~HasSuffix(path, <<SubscribeSuffix>>)
  BY <1>5, WordsDiffer DEF HasSuffix, At
<1>11. Contains(rest, <<suffix>>) /\ Index(rest, <<suffix>>) = 2
  <2> HIDE DEF suffix
  <2>1. 2 \in 1..Len(rest) /\ Len(rest) \in Nat
    BY <1>6
  <2>2. At(rest, <<suffix>>, 2)
    BY <1>6 DEF At
  <2>3. ~At(rest, <<suffix>>, 1)
    BY <1>1, <1>6 DEF At
  <2>4. \A j \in 1..(2 - 1) : ~At(rest, <<suffix>>, j)
    BY <2>3
  <2> QED
    BY <2>1, <2>2, <2>4, IndexIs
<1>12. OneTask(op, rest, <<suffix>>) = Target(op, <<w>>, Nothing)
  <2> HIDE DEF suffix
  <2>1. Before(rest, <<suffix>>) = <<w>>
    BY <1>6, <1>11 DEF Before
  <2> QED
    BY <1>11, <2>1 DEF OneTask
<1>13. <<w>> # Nothing
  BY DEF Nothing
<1>14. Action(OneTask(op, rest, <<suffix>>)) = Target(op, <<w>>, Nothing)
  BY <1>12, <1>13 DEF Action, Target
<1>15. Subroute(Verb(op), path, rest) = Action(OneTask(op, rest, <<suffix>>))
  <2>1. CASE op = "cancel"
    BY <1>7, <1>8, <1>9, <1>10, <2>1 DEF Subroute, ByVerb, Verb
  <2>2. CASE op = "subscribe"
    BY <1>7, <1>8, <1>9, <2>2 DEF Subroute, ByVerb, Verb
  <2> QED
    BY <2>1, <2>2
<1>16. path # <<TasksRoot>>
  <2> DEFINE root == <<TasksRoot>>
  <2>1. Len(root) = 1 /\ Len(path) # 1
    BY <1>5
  <2> HIDE DEF root
  <2>2. path # root
    BY <2>1
  <2> QED
    BY <2>2 DEF root
<1> QED
  BY <1>3, <1>5, <1>14, <1>15, <1>16 DEF Dispatch, rest

\* The path of a task.
LEMMA TaskRoute ==
  ASSUME NEW w, w \notin Separators
  PROVE  /\ Dispatch("GET", OnTask(<<w>>)) = Target("getTask", <<w>>, Nothing)
         /\ OnTask(<<w>>)[1] = TasksRoot /\ Len(OnTask(<<w>>)) \in Nat
<1> DEFINE E == {w} \cup Words
           path == OnTask(<<w>>)
           rest == Rest(path)
<1>1. {w} \cup Words \subseteq E
  OBVIOUS
<1> HIDE DEF E
<1>2. /\ path \in Seq(E) /\ Len(path) = 3
      /\ path[1] = TasksRoot /\ path[2] = Slash /\ path[3] = w
  BY <1>1, TaskPath
<1> HIDE DEF path
<1>3. rest = <<w>>
  <2>1. \A i \in 3..3 : path[i] \in E
    BY <1>1, <1>2
  <2>2. /\ rest \in Seq(E) /\ Len(rest) = 1 /\ rest[1] = w
    <3>1. /\ SubSeq(path, 3, 3) \in Seq(E) /\ Len(SubSeq(path, 3, 3)) = 1
          /\ SubSeq(path, 3, 3)[1] = path[3]
      BY <2>1, SubSeqProperties
    <3> QED
      BY <1>2, <3>1 DEF Rest
  <2> DEFINE one == <<w>>
  <2>3. one \in Seq(E) /\ Len(one) = 1 /\ one[1] = w
    BY <1>1
  <2> HIDE DEF one, rest
  <2>4. rest = one
    BY <2>2, <2>3, SeqEqual
  <2> QED
    BY <2>4 DEF one
<1>4. ~Contains(path, ConfigsInfix)
  <2> SUFFICES ASSUME NEW i \in 1..Len(path), At(path, ConfigsInfix, i) PROVE FALSE
    BY DEF Contains
  <2>1. i = 1
    BY <1>2 DEF At, ConfigsInfix
  <2> QED
    BY <1>2, <2>1, WordsDiffer DEF At, ConfigsInfix, Separators
<1>5. /\ ~HasSuffix(path, ConfigsPart) /\ ~HasSuffix(path, <<SubscribeSuffix>>)
      /\ ~HasSuffix(path, <<CancelSuffix>>)
  BY <1>2 DEF HasSuffix, At, ConfigsPart, Separators
<1>6. path # <<TasksRoot>>
  <2> DEFINE root == <<TasksRoot>>
  <2>1. Len(root) = 1 /\ Len(path) # 1
    BY <1>2
  <2> HIDE DEF root
  <2>2. path # root
    BY <2>1
  <2> QED
    BY <2>2 DEF root
<1>7. Dispatch("GET", path) = Action(Target("getTask", rest, Nothing))
  BY <1>4, <1>5, <1>6 DEF Dispatch, Subroute, ByVerb
<1>8. Action(Target("getTask", <<w>>, Nothing)) = Target("getTask", <<w>>, Nothing)
  BY DEF Action, Target, Nothing
<1> QED
  BY <1>2, <1>3, <1>7, <1>8 DEF path

-----------------------------------------------------------------------------
(***************************************************************************)
(* Requests.                                                               *)
(***************************************************************************)
\* A REST request that is not for the options reaches what it asks for.
LEMMA RestReaches ==
  ASSUME NEW ask \in RestAsks
  PROVE  /\ Dispatch(Verb(ask.op), Path(ask.op, ask.task, ask.id)) = ask
         /\ Path(ask.op, ask.task, ask.id)[1] = TasksRoot
         /\ Len(Path(ask.op, ask.task, ask.id)) \in Nat
<1>1. CASE ask = Target("listTasks", Nothing, Nothing)
  BY <1>1 DEF Dispatch, ByVerb, Verb, Path, Target
<1>2. CASE ask # Target("listTasks", Nothing, Nothing)
  <2>1. PICK op \in ConfigOps \cup TaskOps, t \in TaskId, c \in ConfigId \cup {NoId} :
          /\ ask = Target(op, t, c) /\ op # "listTasks"
          /\ op \notin {"get", "delete"} => c = Nothing
    BY <1>2 DEF RestAsks, RpcAsks, Target, ConfigOps, TaskOps, Nothing, NoId
  <2>2. ask.op = op /\ ask.task = t /\ ask.id = c
    BY <2>1 DEF Target
  <2>3. PICK w : t = <<w>> /\ w \notin Separators
    BY IdsAreWords
  <2>4. \E S : c \in Seq(S)
    <3>1. CASE c \in ClientIds
      BY <3>1, IdsAreWords
    <3>2. CASE c = NoId
      BY <3>2, EmptySeq DEF NoId
    <3>3. ASSUME NEW n \in 1..MaxSet, c = pcId(n) PROVE \E S : c \in Seq(S)
      <4> DEFINE word == <<"pc", n>>
      <4>1. c = <<word>>
        BY <3>3 DEF pcId
      <4> HIDE DEF word
      <4>2. <<word>> \in Seq({word})
        OBVIOUS
      <4> QED
        BY <4>1, <4>2
    <3> QED
      BY <3>1, <3>2, <3>3 DEF ConfigId
  <2>5. /\ Dispatch(Verb(op), Path(op, <<w>>, c)) = Target(op, <<w>>, c)
        /\ Path(op, <<w>>, c)[1] = TasksRoot /\ Len(Path(op, <<w>>, c)) \in Nat
    <3>1. CASE op \in {"get", "delete"}
      BY <2>3, <2>4, <3>1, ConfigRoute
    <3>2. CASE op \in {"set", "list"}
      BY <2>1, <2>3, <3>2, ConfigsRoute
    <3>3. CASE op \in {"cancel", "subscribe"}
      BY <2>1, <2>3, <3>3, ActionRoute
    <3>4. CASE op = "getTask"
      BY <2>1, <2>3, <3>4, TaskRoute DEF Verb, Path
    <3> QED
      BY <2>1, <3>1, <3>2, <3>3, <3>4 DEF ConfigOps, TaskOps
  <2> QED
    BY <2>1, <2>2, <2>3, <2>5
<1> QED
  BY <1>1, <1>2

\* One for the options reaches nothing.
LEMMA NoOptions == ASSUME NEW path PROVE Dispatch("OPTIONS", path) = NoTarget
BY DEF Dispatch, Subroute, ByVerb

\* What a request may lead to: the handler of what was asked, or none.
Answered(via, ask) ==
  /\ \/ /\ asked' = Unasked /\ reached' = NoTarget
        /\ \E kind \in {"redirect", "unauthorized", "notFound"} : Elsewhere(kind)
     \/ /\ asked' = ask /\ reached' = ask /\ Perform(via, ask, ask)
        /\ token' # "none" \/ exempt'
  /\ token' \in Token /\ exempt' \in BOOLEAN
  /\ UNCHANGED policy

\* Where the middleware lets a request without a token through.
LEMMA Gate ==
  ASSUME NEW verb, NEW path, NEW header \in Header, NEW result \in SourceResult
  PROVE  LET m == Middleware(policy, verb, path, header, result)
         IN  /\ m.served \in BOOLEAN /\ m.token \in Token
             /\ (m.served /\ m.token = "none") => Bypasses(policy, verb, path)
BY DEF Middleware, Pass, Unauthorized, Token

LEMMA NoneIsNoOperation ==
  /\ NoTarget.op = "none"
  /\ \A ask \in RestAsks \cup RpcAsks :
       ask # NoTarget /\ ask.op \in ConfigOps \cup TaskOps
BY DEF NoTarget, RestAsks, RpcAsks, Target, ConfigOps, TaskOps

\* A request without a token that is not for the options starts with the
\* prefix of the policy.
LEMMA BypassIsExempt ==
  ASSUME NEW verb, NEW path, policy \in Policies, Len(path) \in Nat,
         verb # "OPTIONS", path \notin WellKnown, Bypasses(policy, verb, path)
  PROVE  policy.excludePrefix # <<>> /\ At(path, policy.excludePrefix, 1)
<1> DEFINE prefix == policy.excludePrefix
<1>1. Len(prefix) \in Nat
  BY PrefixesHaveLengths
<1>2. prefix # <<>> /\ HasPrefix(path, prefix)
  BY DEF Bypasses, Excluded
<1> HIDE DEF prefix
<1>3. 1 + Len(prefix) <= Len(path) + 1
  BY <1>1, <1>2 DEF HasPrefix
<1>4. ASSUME NEW k \in 1..Len(prefix) PROVE path[1 + k - 1] = prefix[k]
  <2>1. 1 + k - 1 = k
    BY <1>1
  <2> QED
    BY <1>2, <2>1 DEF HasPrefix
<1>5. At(path, prefix, 1)
  BY <1>3, <1>4 DEF At
<1> QED
  BY <1>2, <1>5 DEF prefix

LEMMA RequestAnswered ==
  ASSUME NEW via, NEW verb, NEW path, NEW ask \in RestAsks \cup RpcAsks,
         policy \in Policies, Len(path) \in Nat, path \notin WellKnown,
         NEW target, target = IF verb = "OPTIONS" THEN NoTarget ELSE ask,
         Request(via, verb, path, ask, target)
  PROVE  Answered(via, ask)
<1> DEFINE starts == policy.excludePrefix # <<>> /\ At(path, policy.excludePrefix, 1)
<1>1. PICK header \in Header, result \in SourceResult :
        LET m == Middleware(policy, verb, path, header, result)
        IN  /\ token' = m.token
            /\ asked' = IF m.served /\ verb # "OPTIONS" THEN ask ELSE Unasked
            /\ reached' = IF m.served THEN target ELSE NoTarget
            /\ exempt' = starts
            /\ IF m.served THEN Perform(via, ask, target)
               ELSE Elsewhere("unauthorized")
            /\ UNCHANGED policy
  BY DEF Request
<1> DEFINE m == Middleware(policy, verb, path, header, result)
<1>2. /\ m.served \in BOOLEAN /\ m.token \in Token
      /\ (m.served /\ m.token = "none") => Bypasses(policy, verb, path)
  BY Gate
<1>3. verb # "OPTIONS" /\ Bypasses(policy, verb, path) => starts
  BY BypassIsExempt
<1>4. starts \in BOOLEAN
  BY DEF At
<1> HIDE DEF m, starts
<1>5. token' \in Token /\ exempt' \in BOOLEAN /\ UNCHANGED policy
  BY <1>1, <1>2, <1>4 DEF m
<1>6. CASE ~m.served
  BY <1>1, <1>5, <1>6 DEF m, Answered
<1>7. CASE m.served /\ verb = "OPTIONS"
  <2>1. Perform(via, ask, NoTarget)
    BY <1>1, <1>7 DEF m
  <2>2. Elsewhere("notFound")
    BY <2>1, NoneIsNoOperation DEF Perform, ConfigOps, TaskOps
  <2> QED
    BY <1>1, <1>5, <1>7, <2>2 DEF m, Answered
<1>8. CASE m.served /\ verb # "OPTIONS"
  BY <1>1, <1>2, <1>3, <1>5, <1>8 DEF m, Answered
<1> QED
  BY <1>2, <1>6, <1>7, <1>8

\* Every request is answered so.
LEMMA RestAnswered ==
  ASSUME NEW ask \in RestAsks, policy \in Policies, RestRequest(ask)
  PROVE  Answered("rest", ask)
<1> DEFINE path == Path(ask.op, ask.task, ask.id)
<1>1. PICK verb \in {Verb(ask.op), "OPTIONS"} :
        Redirect(path) \/ Request("rest", verb, path, ask, Dispatch(verb, path))
  BY DEF RestRequest
<1>2. CASE Redirect(path)
  BY <1>2 DEF Redirect, Answered, Token
<1>3. CASE Request("rest", verb, path, ask, Dispatch(verb, path))
  <2>1. /\ Dispatch(Verb(ask.op), path) = ask
        /\ path[1] = TasksRoot /\ Len(path) \in Nat
    BY RestReaches
  <2>2. path \notin WellKnown
    BY <2>1 DEF WellKnown, TasksRoot
  <2>3. Dispatch(verb, path) = IF verb = "OPTIONS" THEN NoTarget ELSE ask
    BY <2>1, NoOptions
  <2> HIDE DEF path
  <2> QED
    BY <1>3, <2>1, <2>2, <2>3, RequestAnswered
<1> QED
  BY <1>1, <1>2, <1>3

LEMMA RpcAnswered ==
  ASSUME NEW ask \in RpcAsks, policy \in Policies, RpcRequest(ask)
  PROVE  Answered("rpc", ask)
<1>1. PICK verb \in {"POST", "OPTIONS"} :
        Request("rpc", verb, RpcPath, ask, IF verb = "POST" THEN ask ELSE NoTarget)
  BY DEF RpcRequest
<1>2. RpcPath \notin WellKnown /\ Len(RpcPath) \in Nat
  BY DEF RpcPath, WellKnown
<1>3. (IF verb = "POST" THEN ask ELSE NoTarget) =
        IF verb = "OPTIONS" THEN NoTarget ELSE ask
  OBVIOUS
<1> QED
  BY <1>1, <1>2, <1>3, RequestAnswered

-----------------------------------------------------------------------------
(***************************************************************************)
(* The store behind the front implements PushConfigs: a request that was   *)
(* answered is one step of it, with the ids the client named.              *)
(***************************************************************************)
LEMMA PerformIsNext ==
  ASSUME NEW via \in {"rpc", "rest"}, NEW ask \in RestAsks \cup RpcAsks,
         Perform(via, ask, ask)
  PROVE  Next
<1> DEFINE t == ask.task
           c == ask.id
           ids == IF ask.op \in {"get", "delete"} THEN {c} ELSE {}
<1>1. /\ ask.op \in ConfigOps \cup TaskOps
      /\ ask.op \in ConfigOps => ask \in RpcAsks
  BY NoneIsNoOperation DEF RestAsks, Target, ConfigOps, TaskOps
<1>2. /\ ask.op \in ConfigOps => t \in TaskId \cup {NoId}
      /\ ask.op \in {"get", "delete"} => c \in ConfigId \cup {NoId}
  BY <1>1 DEF RpcAsks, Target, ConfigOps
<1>3. CASE Elsewhere("task")
  BY <1>3 DEF Next
<1>4. CASE ask.op \in ConfigOps /\ Refuse(via, t, ids)
  <2> DEFINE few == ids \cap {NoId}
  <2>1. Refuse(via, t, few) /\ few \in SUBSET {NoId}
    BY <1>4 DEF Refuse
  <2> HIDE DEF few
  <2> QED
    BY <1>2, <1>4, <2>1 DEF Next
<1>5. CASE /\ ask.op \in ConfigOps /\ Accepts(t, ids)
           /\ t \notin TaskId \/ ~(ids \subseteq ConfigId)
  BY <1>2, <1>5 DEF Accepts
<1>6. CASE /\ ask.op = "set" /\ t \in TaskId
           /\ \/ SetMiss(t)
              \/ \E id \in ClientIds \cup {NoId}, owner \in Client :
                   SetNamed(ask.task, t, id, owner)
  BY <1>6 DEF Next, Set
<1>7. CASE ask.op = "list" /\ t \in TaskId /\ (List(t) \/ ListMiss(t))
  BY <1>7 DEF Next
<1>8. CASE /\ ask.op = "get" /\ t \in TaskId /\ c \in ConfigId
           /\ Get(t, c) \/ GetMiss(t, c)
  BY <1>8 DEF Next
<1>9. CASE /\ ask.op = "delete" /\ t \in TaskId /\ c \in ConfigId
           /\ DeleteNamed(ask.task, ask.id, t, c) \/ DeleteMiss(t, c)
  BY <1>9 DEF Next, Delete
<1>10. ask.op # "none"
  BY <1>1 DEF ConfigOps, TaskOps
<1> QED
  BY <1>3, <1>4, <1>5, <1>6, <1>7, <1>8, <1>9, <1>10 DEF Perform

LEMMA AnsweredIsNext ==
  ASSUME NEW via \in {"rpc", "rest"}, NEW ask \in RestAsks \cup RpcAsks,
         Answered(via, ask)
  PROVE  Next
<1>1. CASE \E kind \in {"redirect", "unauthorized", "notFound"} : Elsewhere(kind)
  BY <1>1 DEF Next
<1>2. CASE Perform(via, ask, ask)
  BY <1>2, PerformIsNext
<1> QED
  BY <1>1, <1>2 DEF Answered

\* What a step of the front is.
LEMMA RestSteps ==
  ASSUME policy \in Policies, RestNext
  PROVE  \/ \E t \in TaskId : RestNewTask(t)
         \/ \E via \in {"rpc", "rest"}, ask \in RestAsks \cup RpcAsks :
              Answered(via, ask)
<1>1. CASE \E t \in TaskId : RestNewTask(t)
  BY <1>1
<1>2. CASE \E ask \in RestAsks : RestRequest(ask)
  BY <1>2, RestAnswered
<1>3. CASE \E ask \in RpcAsks : RpcRequest(ask)
  BY <1>3, RpcAnswered
<1> QED
  BY <1>1, <1>2, <1>3 DEF RestNext

\* The policy is fixed, so every step is one of these.
LEMMA PolicyStays == RestSpec => [](policy \in Policies)
<1>1. RestInit => policy \in Policies
  BY DEF RestInit
<1>2. policy \in Policies /\ [RestNext]_restVars => (policy \in Policies)'
  BY RestSteps DEF RestNewTask, Answered, restVars
<1> QED
  BY <1>1, <1>2, PTL DEF RestSpec

\* Behind REST and JSON-RPC, the middleware and the parsing of paths, the
\* store is the one PushConfigs describes (jsonrpc.go:66-119,
\* rest.go:91-215), so its theorems are theorems of the server.
THEOREM FrontImplementsStore == RestSpec => ConfigsSpec
<1>1. RestInit => Init
  BY DEF RestInit
<1>2. policy \in Policies /\ [RestNext]_restVars => [Next]_vars
  <2> SUFFICES ASSUME policy \in Policies, [RestNext]_restVars PROVE [Next]_vars
    OBVIOUS
  <2>1. CASE RestNext
    <3>1. ASSUME NEW t \in TaskId, RestNewTask(t) PROVE Next
      BY <3>1 DEF RestNewTask, Next
    <3> QED
      BY <2>1, <3>1, RestSteps, AnsweredIsNext
  <2>2. CASE UNCHANGED restVars
    BY <2>2 DEF restVars, vars
  <2> QED
    BY <2>1, <2>2
<1> QED
  BY <1>1, <1>2, PolicyStays, PTL DEF RestSpec, ConfigsSpec, Spec

\* A request that is served and not for the options reaches the operation it
\* was built for, and no other, with the ids its client named, however they
\* are spelled (jsonrpc.go:66-119, rest.go:201-215).
THEOREM PathsLeadHome == RestSpec => []ReachesWhatWasAsked
<1>1. RestInit => ReachesWhatWasAsked
  BY DEF RestInit, ReachesWhatWasAsked, Unasked
<1>2. policy \in Policies /\ ReachesWhatWasAsked /\ [RestNext]_restVars
        => ReachesWhatWasAsked'
  BY RestSteps DEF ReachesWhatWasAsked, RestNewTask, Answered, Unasked, restVars
<1> QED
  BY <1>1, <1>2, PolicyStays, PTL DEF RestSpec

\* Whoever gets ok from a handler showed a bearer token, or a source the
\* server trusts did for it, or the policy excludes the very path that was
\* asked for (middleware.go:34-73).
THEOREM NoAnswerWithoutToken == RestSpec => []OnlyBearersServed
<1>1. RestInit => OnlyBearersServed
  BY DEF RestInit, Init, OnlyBearersServed
<1>2. policy \in Policies /\ OnlyBearersServed /\ [RestNext]_restVars
        => OnlyBearersServed'
  <2>1. ASSUME OnlyBearersServed, NEW t \in TaskId, RestNewTask(t)
        PROVE  OnlyBearersServed'
    BY <2>1 DEF RestNewTask, NewTask, OnlyBearersServed
  <2>2. ASSUME NEW via, NEW ask, Answered(via, ask) PROVE OnlyBearersServed'
    <3>1. CASE \E kind \in {"redirect", "unauthorized", "notFound"} : Elsewhere(kind)
      BY <3>1 DEF Elsewhere, Say, OnlyBearersServed
    <3>2. CASE token' # "none" \/ exempt'
      BY <3>2 DEF OnlyBearersServed
    <3> QED
      BY <2>2, <3>1, <3>2 DEF Answered
  <2>3. OnlyBearersServed /\ UNCHANGED restVars => OnlyBearersServed'
    BY DEF restVars, vars, OnlyBearersServed
  <2> QED
    BY <2>1, <2>2, <2>3, RestSteps
<1> QED
  BY <1>1, <1>2, PolicyStays, PTL DEF RestSpec

\* The front and the store behind it keep their types.
THEOREM RestTypeCorrect == RestSpec => []RestTypeOK
<1> DEFINE FrontTypeOK == /\ policy \in Policies /\ token \in Token
                          /\ asked \in Targets /\ reached \in Targets
                          /\ exempt \in BOOLEAN
<1>1. NoTarget \in Targets
  BY DEF NoTarget, Target, Targets
<1>2. RestAsks \cup RpcAsks \subseteq Targets
  BY DEF RestAsks, RpcAsks, Target, Targets, Nothing, NoId, ConfigOps, TaskOps
<1>3. RestInit => FrontTypeOK
  BY <1>1 DEF RestInit, Unasked, Token
<1>4. FrontTypeOK /\ [RestNext]_restVars => FrontTypeOK'
  BY <1>1, <1>2, RestSteps DEF RestNewTask, Answered, Unasked, restVars
<1>5. PushTypeOK /\ FrontTypeOK => RestTypeOK
  BY DEF RestTypeOK
<1> HIDE DEF FrontTypeOK
<1>6. RestSpec => []PushTypeOK
  BY FrontImplementsStore, PushTypeCorrect DEF ConfigsSpec
<1> QED
  BY <1>3, <1>4, <1>5, <1>6, PTL DEF RestSpec
=============================================================================
