SPECIFICATION Spec
CONSTANTS
  f = f
  g = g
  h = h
  q1 = q1
  q2 = q2
  q3 = q3
  s1 = s1
  one = one
  hello = hello
  nul = nul
  a1 = a1
  t1 = t1
  t2 = t2
  p1 = p1
  p2 = p2
  Thread = {t1, t2}
  MainThread = t1
  Path = {p1, p2}
  Object = {a1}
  NoPath = NoPath
  NoObject = NoObject
  Missing = Missing
  NoMember = NoMember
  Number = {one}
  String = {hello, nul}
  CStr <- MCCStr
  MaxLen = 1
  Method <- MCMethod
  Args <- MCArgs
  Result <- MCResult
  Results <- MCResults
  Prop <- MCProp
  PropType <- MCPropType
  Readable = {q1, q3}
  Writeable = {q1, q3}
  Const = {q3}
  First <- MCFirst
  Signal <- MCSignal
  SignalArgs <- MCSignalArgs
  Emitted <- MCEmitted
  SentArgs <- MCSentArgs
  SentValues <- MCSentValues
SYMMETRY Symmetry
INVARIANTS
  TypeOK
  ManagedResolves
  OneReply
  AdvertisedAccepted
  HandlerGetsSent
  SendsFaithful
  ErrorsTell
  SignalsAdvertised
PROPERTIES SetExact
