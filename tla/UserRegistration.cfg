SPECIFICATION Spec
CONSTANTS
  c1 = c1
  c2 = c2
  Calls = {c1, c2}
  NameOf <- MCNameOf
  EmailOf <- MCEmailOf
  PasswordOf <- MCPasswordOf
  MaxAttempts = 2
CHECK_DEADLOCK FALSE
INVARIANTS TypeOK KeysUnique EventsMatchUsers TokensAgree
PROPERTY CreatedCanLogin
