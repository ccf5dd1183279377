SPECIFICATION Spec
CONSTANTS
  Clients = {c1, c2}
  Passwords <- MCPasswords
  Phrases <- MCPhrases
  Hash <- MCHash
  EmergencyUnlock = "emergencyUnlock"
  MAX_FAILED_ATTEMPTS = 3
INVARIANTS TypeOK BlockedIffExhausted 
PROPERTIES ImplementsPolicy
