SPECIFICATION Spec
CONSTANTS
  age = age
  employee = employee
  dateOfBirth = dateOfBirth
  role = role
  SessionIds = {s1, s2}
  CsrfIds = {c1, c2}
  NoCookie = NoCookie
  SESSION_TTL = 2
  CSRF_TTL = 1
  MaxTime = 2
  Templates = {age, employee}
  UnknownType = UnknownType
  Fields = {dateOfBirth, role}
  RequiredFields <- MCRequiredFields
  ChecksOptions = {age}
  DefaultType = age
  Hosts = {"localhost", "example.com"}
  Localhost = "localhost"
  ISSUER_URL = Unset
  Unset = Unset
  Absent = Absent
  Torn = Torn
  Deployments <- MCDeployments
SYMMETRY Symmetry
INVARIANTS TypeOK CsrfSingleUse SavedConfigStarts
PROPERTIES PostsAuthorised TornConfigFailsClosed
