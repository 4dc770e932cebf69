SPECIFICATION Spec
CONSTANTS
  d1 = d1
  d2 = d2
  null = null
  garbage = garbage
  nl = nl
  undefined = undefined
  Doc = {d1, d2, null}
  Fragment = {garbage}
  Falsy = {null, undefined}
  Pipelines <- Both
  Content <- Journal
  MaxLines = 2
INVARIANTS Inv ResultsInOrder ResolvedMeansAll RejectedMeansFailure
PROPERTIES SettlesAfterBody RejectedReleasesBody
